---- MODULE Spec2Model ----
(***************************************************************************)
(* Model of the meshtastic api-server (crisislab-platform):                *)
(*   utils.rs        RingBuffer, await_mesh_response                       *)
(*   pathfinding.rs  edge weights, dijkstra, compute_next_hops_map         *)
(*   routes.rs       update_routes, handle_live_info_websocket, ...        *)
(*   mqtt.rs         publisher_task, subscriber_task                       *)
(*                                                                         *)
(* Four specifications share the variables:                                *)
(*   SpecRing    the RingBuffer driven by arbitrary writes                 *)
(*   SpecPath    one call of compute_next_hops_map on drawn inputs         *)
(*   SpecRoutes  concurrent /admin/update-routes handlers                  *)
(*   SpecLive    live-telemetry websocket sessions on the fan-out bus      *)
(***************************************************************************)
EXTENDS Integers, Sequences, FiniteSets, TLC

VARIABLES
    telemetry_cache,   \* AppState.telemetry_cache : RingBuffer<Telemetry>
    written,           \* ghost: every item passed to RingBuffer::write, in order
    cache_panics,      \* ghost: number of RingBuffer::write calls that panicked
    app_settings,      \* AppState.app_settings (route_cost_weight, route_hops_weight, timeouts)
    pf,                \* the frame of one compute_next_hops_map call (SpecPath)
    updating_routes_lock,  \* AppState.updating_routes_lock: 0 = free, else the holding request
    ur,                \* the update_routes handler of each request: pc, locals, response
    outbound,          \* the mpsc queue to publisher_task (sender_to_publisher)
    bus,               \* every payload sent on the broadcast channel, in order
    websocket_count,   \* AppState.websocket_count (AtomicUsize)
    ws_task,           \* the handle_live_info_websocket task of each session
    conn,              \* each session's connection, as the client leaves it
    frames,            \* the frames each session's client has been sent
    gms,               \* the get_mesh_settings handler of each request
    srv,               \* ghost: the last set_server_settings / get_server_settings call
    aw,                \* the frame of one await_mesh_response call (SpecAwait)
    incoming,          \* the publishes the broker has delivered to the event loop
    polled,            \* how many of them subscriber_task has polled
    cmds,              \* the set_mesh_settings / get_ad_hoc_data handler of each request
    enqueued,          \* ghost: every payload the outbound queue has taken, in order
    published          \* every publish attempt of publisher_task, in order

vars == <<telemetry_cache, written, cache_panics, app_settings, pf,
          updating_routes_lock, ur, outbound, bus,
          websocket_count, ws_task, conn, frames,
          gms, srv, aw, incoming, polled, cmds, enqueued, published>>

(***************************************************************************)
(* Bounds of the model.                                                    *)
(***************************************************************************)
MaxCapacity == 3       \* ring buffer capacities 0..MaxCapacity
MaxTelemetry == 2      \* telemetry values 1..MaxTelemetry
MaxWrites == 5         \* writes per behaviour of SpecRing

Min(a, b) == IF a <= b THEN a ELSE b

\* the last n elements of s, in order
LastN(s, n) == SubSeq(s, Len(s) - n + 1, Len(s))

(***************************************************************************)
(* utils.rs: RingBuffer                                                    *)
(***************************************************************************)
RingBuffer_new(capacity) ==
    [items |-> <<>>, capacity |-> capacity, next_insertion_index |-> 0]

\* write() panics when capacity = 0: items.len() < 0 is false, so it indexes
\* items[0] of an empty Vec. The panic happens before any field is assigned.
RingBuffer_write_panics(rb) == rb.capacity = 0

RingBuffer_write(rb, item) ==
    [rb EXCEPT
        !.items = IF Len(rb.items) < rb.capacity
                  THEN Append(rb.items, item)
                  ELSE [rb.items EXCEPT ![rb.next_insertion_index + 1] = item],
        !.next_insertion_index = (rb.next_insertion_index + 1) % rb.capacity]

\* (mutant) iteration in storage order, ignoring next_insertion_index
RingBuffer_into_iter_Unrotated(rb) == rb.items

\* items[next_insertion_index..] chained with items[..next_insertion_index]
RingBuffer_into_iter(rb) ==
    SubSeq(rb.items, rb.next_insertion_index + 1, Len(rb.items))
        \o SubSeq(rb.items, 1, rb.next_insertion_index)

(***************************************************************************)
(* f32 arithmetic (EdgeWeight = f32), as fixed point.                      *)
(*   raw weights (dB)                : the integer itself                  *)
(*   distances and costs (hop units) : value * DistScale                   *)
(*   route_cost_weight, route_hops_weight : whole numbers                  *)
(* Magnitudes from F32Grain upwards are "huge": a sum or product that      *)
(* lands there is rounded to the nearest multiple of F32Grain (a huge      *)
(* float absorbs a small addend), and a result beyond f32::MAX is +inf.    *)
(* 0 * inf is NaN. Sums of small values are exact.                         *)
(***************************************************************************)
DistScale == 17        \* WEIGHT_RANGE / MAX_HOPS = 170 / 10: makes x/170*10 exact
F32Grain == 8192       \* spacing of the huge floats; every small sum is < F32Grain/2
F32_MAX_RAW == F32Grain                \* f32::MAX as a raw weight
F32_MAX == F32_MAX_RAW * DistScale     \* f32::MAX as a distance or a cost
F32_INF == F32_MAX + F32Grain          \* +inf, above every finite value
F32_NAN == F32_INF + F32Grain          \* NaN

F32Round(x) ==
    IF x < F32Grain THEN x ELSE ((x + (F32Grain \div 2)) \div F32Grain) * F32Grain

\* a + b
F32Add(a, b) ==
    IF a = F32_NAN \/ b = F32_NAN THEN F32_NAN
    ELSE IF a = F32_INF \/ b = F32_INF THEN F32_INF
    ELSE IF F32Round(a + b) > F32_MAX THEN F32_INF
    ELSE F32Round(a + b)

\* a * k for a float a and a non-negative whole number k
F32Mul(a, k) ==
    IF a = F32_NAN THEN F32_NAN
    ELSE IF a = F32_INF THEN (IF k = 0 THEN F32_NAN ELSE F32_INF)
    ELSE IF F32Round(a * k) > F32_MAX THEN F32_INF
    ELSE F32Round(a * k)

\* a < b on f32: false when either side is NaN
F32Less(a, b) == a # F32_NAN /\ b # F32_NAN /\ a < b

(***************************************************************************)
(* pathfinding.rs: edge weights                                            *)
(***************************************************************************)
MIN_RSSI == -120
MAX_RSSI == 0
MIN_SNR == -20
MAX_SNR == 30
MAX_HOPS == 10

\* raw weight of an observation; snr is a whole number of dB
compute_edge_weight(rssi, snr) ==
    IF snr < MIN_SNR THEN F32_MAX_RAW ELSE (0 - rssi) - snr

MIN_WEIGHT == compute_edge_weight(MAX_RSSI, MAX_SNR)
MAX_WEIGHT == compute_edge_weight(MIN_RSSI, MIN_SNR)
WEIGHT_RANGE == MAX_WEIGHT - MIN_WEIGHT

\* (weight / WEIGHT_RANGE) * MAX_HOPS, as a distance (times DistScale)
proportionalise_weight(weight) ==
    (weight * MAX_HOPS * DistScale) \div WEIGHT_RANGE

compute_edge_weight_proportionalised(rssi, snr) ==
    proportionalise_weight(compute_edge_weight(rssi, snr))

\* (cost * route_cost_weight) + (hop_count as f32 * route_hops_weight),
\* read from the settings s that the lock holds at the time of the call
get_route_cost(s, cost, hop_count) ==
    F32Add(F32Mul(cost, s.route_cost_weight),
           F32Mul(hop_count * DistScale, s.route_hops_weight))

(***************************************************************************)
(* pathfinding.rs: dijkstra                                                *)
(***************************************************************************)
None == 0              \* Option::None for a NodeId (node ids are positive)

\* the sequence s as a set
Range(s) == {s[i] : i \in 1..Len(s)}

\* (mutant) the other gateways are left in the working set
dijkstra_working_set_AllKeys(adjacency_map, gateway_ids, start) ==
    DOMAIN adjacency_map

\* lines 98-125: the working set is start plus every non-gateway key
dijkstra_working_set(adjacency_map, gateway_ids, start) ==
    {n \in DOMAIN adjacency_map : n = start \/ n \notin Range(gateway_ids)}

dijkstra_init(adjacency_map, gateway_ids, start) ==
    [n \in dijkstra_working_set(adjacency_map, gateway_ids, start) |->
        [total_distance |-> IF n = start THEN 0 ELSE F32_MAX,
         total_cost     |-> IF n = start THEN 0 ELSE F32_MAX,
         previous       |-> None,
         hop_count      |-> 0]]

\* (mutant) takes the first unvisited node instead of the cheapest
dijkstra_current_FirstUnvisited(table, unvisited) ==
    CHOOSE c \in unvisited : \A m \in unvisited : c <= m

\* lines 129-140: min_by over the BTreeSet in ascending order returns the
\* first of several equally minimal elements
dijkstra_current(table, unvisited) ==
    CHOOSE c \in unvisited :
        \A m \in unvisited :
            \/ table[c].total_cost < table[m].total_cost
            \/ (table[c].total_cost = table[m].total_cost /\ c <= m)

\* lines 142-176: one iteration of the while loop, after current was taken out
\* of unvisited: every neighbour still unvisited is relaxed (each neighbour is
\* a distinct key, so the HashMap's iteration order does not matter)
dijkstra_relax(s, adjacency_map, table, unvisited, current) ==
    LET rest == unvisited \ {current}
        ce   == table[current]
        dist(n) == F32Add(ce.total_distance, adjacency_map[current][n])
        new_cost(n) == get_route_cost(s, dist(n), ce.hop_count + 1)
    IN  [n \in DOMAIN table |->
            IF n \in rest /\ n \in DOMAIN adjacency_map[current]
               /\ F32Less(new_cost(n), table[n].total_cost)
            THEN [total_distance |-> dist(n),
                  total_cost     |-> new_cost(n),
                  previous       |-> current,
                  hop_count      |-> ce.hop_count + 1]
            ELSE table[n]]

(***************************************************************************)
(* pathfinding.rs: compute_next_hops_map, as a frame stepped by actions.   *)
(*   pc = "for_gateway"  at the head of `for gateway_id in &gateway_ids`   *)
(*   pc = "dijkstra"     inside dijkstra's while loop for gateway_ids[gi]  *)
(*   pc = "collect"      the loop is over, the final map is to be built    *)
(*   pc = "returned" / "panicked"                                          *)
(***************************************************************************)
EmptyMap == [n \in {} |-> <<>>]
NoFrame == [pc |-> "none"]     \* no call of compute_next_hops_map is in progress

compute_next_hops_map_call(adjacency_map, gateway_ids) ==
    [pc |-> "for_gateway", adjacency_map |-> adjacency_map, gateway_ids |-> gateway_ids,
     gi |-> 1, table |-> EmptyMap, unvisited |-> {}, result |-> EmptyMap, out |-> EmptyMap]

\* (mutant) a gateway missing from the adjacency map is skipped
pf_for_gateway_SkipMissing(f) ==
    IF f.gi > Len(f.gateway_ids) THEN [f EXCEPT !.pc = "collect"]
    ELSE IF f.gateway_ids[f.gi] \notin DOMAIN f.adjacency_map
    THEN [f EXCEPT !.gi = f.gi + 1]
    ELSE [f EXCEPT !.pc = "dijkstra",
                   !.table = dijkstra_init(f.adjacency_map, f.gateway_ids, f.gateway_ids[f.gi]),
                   !.unvisited = dijkstra_working_set(f.adjacency_map, f.gateway_ids,
                                                      f.gateway_ids[f.gi])]

\* lines 197-213: next gateway; a gateway that is no key returns the empty map
pf_for_gateway(f) ==
    IF f.gi > Len(f.gateway_ids) THEN [f EXCEPT !.pc = "collect"]
    ELSE IF f.gateway_ids[f.gi] \notin DOMAIN f.adjacency_map
    THEN [f EXCEPT !.pc = "returned", !.out = EmptyMap]
    ELSE [f EXCEPT !.pc = "dijkstra",
                   !.table = dijkstra_init(f.adjacency_map, f.gateway_ids, f.gateway_ids[f.gi]),
                   !.unvisited = dijkstra_working_set(f.adjacency_map, f.gateway_ids,
                                                      f.gateway_ids[f.gi])]

\* lines 127-177: one iteration of dijkstra's while loop under settings s
pf_dijkstra_step(f, s) ==
    LET current == dijkstra_current(f.table, f.unvisited)
    IN  [f EXCEPT !.table = dijkstra_relax(s, f.adjacency_map, f.table, f.unvisited, current),
                  !.unvisited = f.unvisited \ {current}]

\* line 235-239: binary_search_by with a closure whose parameter `entry` shadows
\* the entry being inserted compares every element with itself: always Equal.
\* On an empty Vec that is Err(0); otherwise Ok(i) for "any one of the matches":
\* i = len/2 (std 1.52 .. 1.81) or i = len-1 (std before and after).
binary_search_positions(len) ==
    IF len = 0 THEN {0} ELSE {len \div 2, len - 1}

InsertAt(list, i, e) == SubSeq(list, 1, i) \o <<e>> \o SubSeq(list, i + 1, Len(list))

\* the nodes of the table that lines 220-245 look at
pf_merge_nodes(f) == DOMAIN f.table \ {f.gateway_ids[f.gi]}

pf_merge_list(f, n) == IF n \in DOMAIN f.result THEN f.result[n] ELSE <<>>

\* the insert positions the for loop may use: one per node whose entry is new
pf_merge_positions(f) ==
    {pos \in [pf_merge_nodes(f) -> 0..Len(f.gateway_ids)] :
        \A n \in pf_merge_nodes(f) :
            IF f.table[n] \in Range(pf_merge_list(f, n))
            THEN pos[n] = 0
            ELSE pos[n] \in binary_search_positions(Len(pf_merge_list(f, n)))}

\* (mutant) a record equal to one already in the list is inserted again
pf_merge_KeepsDuplicates(f, pos) ==
    [f EXCEPT
        !.pc = "for_gateway",
        !.gi = f.gi + 1,
        !.result = [n \in DOMAIN f.result \cup pf_merge_nodes(f) |->
                       IF n \notin pf_merge_nodes(f) THEN f.result[n]
                       ELSE InsertAt(pf_merge_list(f, n), pos[n], f.table[n])]]

\* lines 220-245: the entries of one dijkstra table are put into the lists
pf_merge(f, pos) ==
    [f EXCEPT
        !.pc = "for_gateway",
        !.gi = f.gi + 1,
        !.result = [n \in DOMAIN f.result \cup pf_merge_nodes(f) |->
                       IF n \notin pf_merge_nodes(f) THEN f.result[n]
                       ELSE IF f.table[n] \in Range(pf_merge_list(f, n))
                       THEN pf_merge_list(f, n)
                       ELSE InsertAt(pf_merge_list(f, n), pos[n], f.table[n])]]

\* lines 250-266: every entry is replaced by its previous; None panics
pf_collect(f) ==
    IF \E n \in DOMAIN f.result : \E i \in 1..Len(f.result[n]) :
           f.result[n][i].previous = None
    THEN [f EXCEPT !.pc = "panicked"]
    ELSE [f EXCEPT !.pc = "returned",
                   !.out = [n \in DOMAIN f.result |->
                               [i \in 1..Len(f.result[n]) |-> f.result[n][i].previous]]]

(***************************************************************************)
(* The mesh interface: the outbound queue and the fan-out bus.             *)
(***************************************************************************)
MaxRequests == 2       \* update_routes requests
MaxBus == 2            \* payloads the bus carries in one behaviour
ChannelCapacity == 1   \* CONFIG.channel_capacity of both channels

routes_vars == <<updating_routes_lock, ur, outbound, bus>>

Requests == 1..MaxRequests

\* payloads on the bus: encoded CrisislabMessages, or bytes that do not decode
Undecodable == [kind |-> "Undecodable"]
TelemetryMsg(t) == [kind |-> "LiveTelemetry", t |-> t]
SignalDataMsg(to, is_gateway, links) ==
    [kind |-> "SignalData", to |-> to, is_gateway |-> is_gateway, links |-> links]
CommandMsg(kind) == [kind |-> kind]
NextHopsMsg(entries) == [kind |-> "UpdatedNextHops", entries |-> entries]

\* CrisislabMessage::decode succeeds
Decodes(payload) == payload.kind # "Undecodable"

\* broadcast::Sender::subscribe: the receiver sees only later payloads
subscribe == Len(bus) + 1

\* broadcast::Receiver::recv is ready / reports Lagged / yields the next payload
recv_ready(rx) == rx <= Len(bus)
recv_lagged(rx) == Len(bus) - rx + 1 > ChannelCapacity

\* tokio::time::timeout polls the wait before the deadline: the deadline is
\* noticed only when the receiver has nothing to deliver
timeout_fires(rx) == ~recv_ready(rx)

(***************************************************************************)
(* utils.rs: await_mesh_response, one receiver result at a time.           *)
(***************************************************************************)
\* what Receiver::recv() yields
RecvOk(payload) == [recv |-> "Ok", payload |-> payload]
RecvLagged == [recv |-> "Lagged", payload |-> Undecodable]
RecvClosed == [recv |-> "Closed", payload |-> Undecodable]

\* what the receiver at position rx of the bus yields next
bus_delivery(rx) == IF recv_lagged(rx) THEN RecvLagged ELSE RecvOk(bus[rx])

DECODE_ERROR == "Failed to decode CrisislabMessage"
LAGGED_ERROR == "Mesh response receiver lagged"
CLOSED_ERROR == "Mesh response receiver closed"
TIMEOUT_ERROR == "Timed out waiting for mesh response after N seconds"

AwaitOk(value) == [tag |-> "Ok", value |-> value, error |-> ""]
AwaitErr(error) == [tag |-> "Err", value |-> Undecodable, error |-> error]
AwaitContinue == [tag |-> "Continue", value |-> Undecodable, error |-> ""]

\* (mutant) an undecodable payload is skipped
await_mesh_response_recv_SkipsUndecodable(item, callback) ==
    IF item.recv = "Lagged" THEN AwaitErr(LAGGED_ERROR)
    ELSE IF item.recv = "Closed" THEN AwaitErr(CLOSED_ERROR)
    ELSE IF ~Decodes(item.payload) THEN AwaitContinue
    ELSE IF callback[item.payload] # <<>> THEN AwaitOk(callback[item.payload][1])
    ELSE AwaitContinue

\* lines 143-161: one turn of the loop on what recv() yielded; callback maps
\* a decoded message to <<>> for None and to <<value>> for Some(value)
await_mesh_response_recv(item, callback) ==
    IF item.recv = "Lagged" THEN AwaitErr(LAGGED_ERROR)
    ELSE IF item.recv = "Closed" THEN AwaitErr(CLOSED_ERROR)
    ELSE IF ~Decodes(item.payload) THEN AwaitErr(DECODE_ERROR)
    ELSE IF callback[item.payload] # <<>> THEN AwaitOk(callback[item.payload][1])
    ELSE AwaitContinue

(***************************************************************************)
(* routes.rs: the live-telemetry sessions' state.                          *)
(***************************************************************************)
MaxSessions == 2       \* websocket sessions
MaxLiveCapacity == 2   \* telemetry cache capacities 0..MaxLiveCapacity in SpecLive

live_vars == <<websocket_count, ws_task, conn, frames>>

Sessions == 1..MaxSessions

\* usize::MAX of the AtomicUsize, with 16 bits standing for the 64 (the
\* wrap-around is the same, the numbers stay small)
USIZE_MAX == 65535

\* AtomicUsize::fetch_add(1) and fetch_sub(1) wrap around
fetch_add(count) == (count + 1) % (USIZE_MAX + 1)
fetch_sub(count) == (count - 1) % (USIZE_MAX + 1)

\* rx is the position of the iteration's receiver; first_rx records where the
\* session's first receiver was created; decrements counts the fetch_subs;
\* snap_at records how many cache writes preceded the snapshot
NoSession ==
    [pc |-> "closed", snapshot |-> <<>>, rx |-> 0, bytes |-> Undecodable,
     first_rx |-> 0, decrements |-> 0, snap_at |-> 0]

LiveIdle ==
    /\ websocket_count = 0
    /\ ws_task = [s \in Sessions |-> NoSession]
    /\ conn = [s \in Sessions |-> "open"]
    /\ frames = [s \in Sessions |-> <<>>]

(***************************************************************************)
(* The state of the other handlers and of the two mqtt tasks.              *)
(***************************************************************************)
MaxCommands == 2       \* set_mesh_settings and get_ad_hoc_data requests

ext_vars == <<gms, srv, aw, incoming, polled, cmds, enqueued, published>>

\* Option<T>: <<>> is None, <<v>> is Some(v)
OptNone == <<>>
Some(v) == <<v>>

MeshSettingsMsg(v) == [kind |-> "MeshSettings", v |-> v]
GetAdHocTelemetryMsg(node_id) == [kind |-> "GetAdHocTelemetry", node_id |-> node_id]

\* rx, rx0 as in update_routes; timeout is the value read at line 148;
\* enq_at and end_at record the length of the bus when the request was
\* enqueued and when the handler returned
\* the get_mesh_settings requests in flight
Getters == {1, 2}

\* error_secs is the number the timeout message is formatted with
IdleGetter ==
    [pc |-> "start", resp |-> "none", error |-> "", error_secs |-> 0,
     body |-> Undecodable,
     rx |-> 0, rx0 |-> 0, timeout |-> 0, enq_at |-> 0, end_at |-> 0]

NoAwait == [pc |-> "none"]

\* the set_mesh_settings and get_ad_hoc_data requests
Commands == 1..MaxCommands

IdleCommand ==
    [pc |-> "start", handler |-> "none", message |-> Undecodable,
     resp |-> "none", error |-> ""]

ExtIdle ==
    /\ gms = [r \in Getters |-> IdleGetter]
    /\ srv = [prev |-> app_settings,
              body |-> [f \in DOMAIN app_settings |-> OptNone],
              got |-> OptNone]
    /\ aw = NoAwait
    /\ incoming = <<>>
    /\ polled = 0
    /\ cmds = [c \in Commands |-> IdleCommand]
    /\ enqueued = <<>>
    /\ published = <<>>

(***************************************************************************)
(* routes.rs: update_routes, one handler per request.                      *)
(*   pc: "start" -> "send_request" -> "subscribe" -> "collect" ->          *)
(*       "compute" -> "send_next_hops" -> "done"                           *)
(***************************************************************************)
CONFLICT_MESSAGE == "Next hops update has already been requested by another client"
SEND_ERROR_MESSAGE == "send_command_protobuf error"   \* the error_message of lines 34-53

\* rx is the receiver's position on the bus; rx0 records where it was created
IdleHandler ==
    [pc |-> "start", resp |-> "none", error |-> "", body |-> EmptyMap,
     adjacency_map |-> EmptyMap, gateway_ids |-> <<>>, rx |-> 0, rx0 |-> 0,
     frame |-> NoFrame]

RoutesIdle ==
    /\ updating_routes_lock = 0
    /\ ur = [r \in Requests |-> IdleHandler]
    /\ outbound = <<>>
    /\ bus = <<>>

\* the handler returns: its locals and the lock guard are dropped
ur_return(resp, error, body) ==
    [IdleHandler EXCEPT !.pc = "done", !.resp = resp, !.error = error, !.body = body]

\* (mutant) try_lock replaced by a lock that is always granted
try_lock_AlwaysGranted(lock) == TRUE

\* Mutex::try_lock succeeds
try_lock(lock) == lock = 0

\* lines 193-203
UpdateRoutes_TryLock(r) ==
    /\ ur[r].pc = "start"
    /\ IF try_lock(updating_routes_lock)
       THEN /\ updating_routes_lock' = r
            /\ ur' = [ur EXCEPT ![r].pc = "send_request"]
       ELSE /\ ur' = [ur EXCEPT ![r] = ur_return("409", CONFLICT_MESSAGE, EmptyMap)]
            /\ UNCHANGED updating_routes_lock
    /\ UNCHANGED <<outbound, bus>>
    /\ UNCHANGED <<telemetry_cache, written, cache_panics, app_settings, pf, live_vars, ext_vars>>

\* (mutant) the guard is leaked on the error returns
release_lock_OnSuccessOnly(lock, resp) == IF resp = "200" THEN 0 ELSE lock

\* the _guard of line 193 is dropped when the handler returns with resp
release_lock(lock, resp) == 0

\* lines 205-220: send_command_protobuf(UpdateNextHopsRequest); ok = the
\* message was encoded and the queue took it
UpdateRoutes_SendRequest(r, ok) ==
    /\ ur[r].pc = "send_request"
    /\ IF ok
       THEN /\ Len(outbound) < ChannelCapacity
            /\ outbound' = Append(outbound, CommandMsg("UpdateNextHopsRequest"))
            /\ enqueued' = Append(enqueued, CommandMsg("UpdateNextHopsRequest"))
            /\ ur' = [ur EXCEPT ![r].pc = "subscribe",
                                ![r].adjacency_map = EmptyMap,
                                ![r].gateway_ids = <<>>]
            /\ UNCHANGED updating_routes_lock
       ELSE /\ ur' = [ur EXCEPT ![r] = ur_return("500", SEND_ERROR_MESSAGE, EmptyMap)]
            /\ updating_routes_lock' = release_lock(updating_routes_lock, "500")
            /\ UNCHANGED <<outbound, enqueued>>
    /\ UNCHANGED bus
    /\ UNCHANGED <<telemetry_cache, written, cache_panics, app_settings, pf, live_vars>>
    /\ UNCHANGED <<cmds, gms, srv, aw, incoming, polled, published>>

\* lines 222-232: the timeout is read and the receiver is created
UpdateRoutes_Subscribe(r) ==
    /\ ur[r].pc = "subscribe"
    /\ ur' = [ur EXCEPT ![r].pc = "collect", ![r].rx = subscribe, ![r].rx0 = subscribe]
    /\ UNCHANGED <<updating_routes_lock, outbound, bus>>
    /\ UNCHANGED <<telemetry_cache, written, cache_panics, app_settings, pf, live_vars, ext_vars>>

\* lines 237-255: the callback's effect on adjacency_map for one SignalData
signal_data_adjacency(adjacency_map, sd) ==
    LET old == IF sd.to \in DOMAIN adjacency_map THEN adjacency_map[sd.to] ELSE EmptyMap
        froms == {sd.links[i].from : i \in 1..Len(sd.links)}
        \* the last link of a `from` wins: HashMap::insert overwrites
        last(f) == CHOOSE i \in 1..Len(sd.links) :
                       /\ sd.links[i].from = f
                       /\ \A j \in 1..Len(sd.links) : sd.links[j].from = f => j <= i
        sub == [f \in DOMAIN old \cup froms |->
                   IF f \in froms
                   THEN compute_edge_weight_proportionalised(sd.links[last(f)].rssi,
                                                             sd.links[last(f)].snr)
                   ELSE old[f]]
    IN  [n \in DOMAIN adjacency_map \cup {sd.to} |->
            IF n = sd.to THEN sub ELSE adjacency_map[n]]

signal_data_gateways(gateway_ids, sd) ==
    IF sd.is_gateway THEN Append(gateway_ids, sd.to) ELSE gateway_ids

\* utils.rs 143-161 with the callback of routes.rs 233-259: one recv()
UpdateRoutes_Recv(r) ==
    /\ ur[r].pc = "collect"
    /\ recv_ready(ur[r].rx)
    /\ IF recv_lagged(ur[r].rx)
       THEN \* Err(Lagged): the wait ends, the error is discarded (let _ =)
            ur' = [ur EXCEPT ![r].pc = "compute",
                             ![r].frame = compute_next_hops_map_call(ur[r].adjacency_map,
                                                                     ur[r].gateway_ids)]
       ELSE LET payload == bus[ur[r].rx]
            IN  IF ~Decodes(payload)
                THEN ur' = [ur EXCEPT ![r].pc = "compute",
                                      ![r].frame = compute_next_hops_map_call(
                                                       ur[r].adjacency_map, ur[r].gateway_ids)]
                ELSE IF payload.kind = "SignalData"
                THEN ur' = [ur EXCEPT
                               ![r].rx = @ + 1,
                               ![r].adjacency_map = signal_data_adjacency(@, payload),
                               ![r].gateway_ids = signal_data_gateways(@, payload)]
                ELSE ur' = [ur EXCEPT ![r].rx = @ + 1]
    /\ UNCHANGED <<updating_routes_lock, outbound, bus>>
    /\ UNCHANGED <<telemetry_cache, written, cache_panics, app_settings, pf, live_vars, ext_vars>>

\* utils.rs 141, 164-168: the deadline elapses; routes.rs 263-266 goes on
UpdateRoutes_Timeout(r) ==
    /\ ur[r].pc = "collect"
    /\ timeout_fires(ur[r].rx)
    /\ ur' = [ur EXCEPT ![r].pc = "compute",
                        ![r].frame = compute_next_hops_map_call(ur[r].adjacency_map,
                                                                ur[r].gateway_ids)]
    /\ UNCHANGED <<updating_routes_lock, outbound, bus>>
    /\ UNCHANGED <<telemetry_cache, written, cache_panics, app_settings, pf, live_vars, ext_vars>>

\* line 265-266: compute_next_hops_map runs, one step of its frame at a time
UpdateRoutes_Compute(r) ==
    /\ ur[r].pc = "compute"
    /\ \/ /\ ur[r].frame.pc = "for_gateway"
          /\ ur' = [ur EXCEPT ![r].frame = pf_for_gateway(@)]
       \/ /\ ur[r].frame.pc = "dijkstra" /\ ur[r].frame.unvisited # {}
          /\ ur' = [ur EXCEPT ![r].frame = pf_dijkstra_step(@, app_settings)]
       \/ /\ ur[r].frame.pc = "dijkstra" /\ ur[r].frame.unvisited = {}
          /\ \E pos \in pf_merge_positions(ur[r].frame) :
                 ur' = [ur EXCEPT ![r].frame = pf_merge(@, pos)]
       \/ /\ ur[r].frame.pc = "collect"
          /\ ur' = [ur EXCEPT ![r].frame = pf_collect(@)]
       \/ /\ ur[r].frame.pc = "returned"
          /\ ur' = [ur EXCEPT ![r].pc = "send_next_hops"]
    /\ UNCHANGED <<updating_routes_lock, outbound, bus>>
    /\ UNCHANGED <<telemetry_cache, written, cache_panics, app_settings, pf, live_vars, ext_vars>>

\* pathfinding.rs 261: the panic unwinds the handler; the guard is dropped
UpdateRoutes_Panic(r) ==
    /\ ur[r].pc = "compute"
    /\ ur[r].frame.pc = "panicked"
    /\ ur' = [ur EXCEPT ![r] = ur_return("panic", "", EmptyMap)]
    /\ updating_routes_lock' = release_lock(updating_routes_lock, "panic")
    /\ UNCHANGED <<outbound, bus>>
    /\ UNCHANGED <<telemetry_cache, written, cache_panics, app_settings, pf, live_vars, ext_vars>>

\* lines 270-297: send_command_protobuf(UpdatedNextHops), then the response
UpdateRoutes_SendNextHops(r, ok) ==
    /\ ur[r].pc = "send_next_hops"
    /\ IF ok
       THEN /\ Len(outbound) < ChannelCapacity
            /\ outbound' = Append(outbound, NextHopsMsg(ur[r].frame.out))
            /\ enqueued' = Append(enqueued, NextHopsMsg(ur[r].frame.out))
            /\ ur' = [ur EXCEPT ![r] = ur_return("200", "", ur[r].frame.out)]
            /\ updating_routes_lock' = release_lock(updating_routes_lock, "200")
       ELSE /\ ur' = [ur EXCEPT ![r] = ur_return("500", SEND_ERROR_MESSAGE, EmptyMap)]
            /\ updating_routes_lock' = release_lock(updating_routes_lock, "500")
            /\ UNCHANGED <<outbound, enqueued>>
    /\ UNCHANGED bus
    /\ UNCHANGED <<telemetry_cache, written, cache_panics, app_settings, pf, live_vars>>
    /\ UNCHANGED <<cmds, gms, srv, aw, incoming, polled, published>>

MaxPublishFailures == 1    \* publishes the MQTT client refuses
MaxIncoming == 2           \* events the MQTT event loop yields

\* one publish attempt of the publisher task
Attempt(payload, ok) == [payload |-> payload, ok |-> ok]

\* the attempts so far that failed
FailedAttempts == {i \in DOMAIN published : ~published[i].ok}

\* (mutant) the task ends at the first failed publish
PublisherTask_EndsAtFailure ==
    /\ outbound # <<>>
    /\ FailedAttempts = {}
    /\ outbound' = Tail(outbound)
    /\ \E ok \in BOOLEAN :
          /\ ~ok => Cardinality(FailedAttempts) < MaxPublishFailures
          /\ published' = Append(published, Attempt(Head(outbound), ok))
    /\ UNCHANGED <<cmds, gms, srv, aw, incoming, polled, enqueued>>
    /\ UNCHANGED <<updating_routes_lock, ur, bus>>
    /\ UNCHANGED <<telemetry_cache, written, cache_panics, app_settings, pf, live_vars>>

\* mqtt.rs 16-28: the publisher task takes the next payload off the queue and
\* publishes it; ok = the client took the publish; a failed publish is
\* logged and the payload is gone
PublisherTask ==
    /\ outbound # <<>>
    /\ outbound' = Tail(outbound)
    /\ \E ok \in BOOLEAN :
          /\ ~ok => Cardinality(FailedAttempts) < MaxPublishFailures
          /\ published' = Append(published, Attempt(Head(outbound), ok))
    /\ UNCHANGED <<cmds, gms, srv, aw, incoming, polled, enqueued>>
    /\ UNCHANGED <<updating_routes_lock, ur, bus>>
    /\ UNCHANGED <<telemetry_cache, written, cache_panics, app_settings, pf, live_vars>>

\* the bus carries a payload to every current receiver
BusSend(payload) ==
    /\ Len(bus) < MaxBus
    /\ bus' = Append(bus, payload)
    /\ UNCHANGED <<updating_routes_lock, ur, outbound>>
    /\ UNCHANGED <<telemetry_cache, written, cache_panics, app_settings, pf, live_vars, ext_vars>>

(***************************************************************************)
(* routes.rs: get_mesh_settings, one handler per request.                  *)
(*   pc: "start" -> "subscribe" -> "wait" -> "done"                        *)
(***************************************************************************)
\* std::time::Duration
Duration_from_secs(secs) == [secs |-> secs, nanos |-> 0]
as_secs(duration) == duration.secs

\* the payloads a waiting handler may be given
GmsPayloads ==
    { MeshSettingsMsg(1), MeshSettingsMsg(2), TelemetryMsg(1), Undecodable }

\* (mutant) the callback keeps whatever decodes
mesh_settings_callback_AnyPayload(payload) == Some(payload)

\* lines 159-166: the callback keeps a MeshSettings payload
mesh_settings_callback(payload) ==
    IF payload.kind = "MeshSettings" THEN Some(payload) ELSE OptNone

\* lines 159-166: the closure as it is passed to await_mesh_response
mesh_settings_closure == [payload \in GmsPayloads |-> mesh_settings_callback(payload)]

gms_return(r, resp, error, error_secs, body) ==
    [gms[r] EXCEPT !.pc = "done", !.resp = resp, !.error = error,
                   !.error_secs = error_secs, !.body = body, !.end_at = Len(bus)]

\* lines 135-145: send_command_protobuf(GetMeshSettingsRequest); ok = the
\* message was encoded and the queue took it
GetMeshSettings_SendRequest(r, ok) ==
    /\ gms[r].pc = "start"
    /\ IF ok
       THEN /\ Len(outbound) < ChannelCapacity
            /\ outbound' = Append(outbound, CommandMsg("GetMeshSettingsRequest"))
            /\ enqueued' = Append(enqueued, CommandMsg("GetMeshSettingsRequest"))
            /\ gms' = [gms EXCEPT ![r].pc = "subscribe", ![r].enq_at = Len(bus)]
       ELSE /\ gms' = [gms EXCEPT ![r] = gms_return(r, "500", SEND_ERROR_MESSAGE, 0, Undecodable)]
            /\ UNCHANGED <<outbound, enqueued>>
    /\ UNCHANGED <<cmds, srv, aw, incoming, polled, published>>
    /\ UNCHANGED <<updating_routes_lock, ur, bus>>
    /\ UNCHANGED <<telemetry_cache, written, cache_panics, app_settings, pf, live_vars>>

\* lines 147-157: the timeout is read, then the receiver is created
GetMeshSettings_Subscribe(r) ==
    /\ gms[r].pc = "subscribe"
    /\ gms' = [gms EXCEPT ![r].pc = "wait",
                          ![r].timeout = app_settings.get_settings_timeout_seconds,
                          ![r].rx = subscribe, ![r].rx0 = subscribe]
    /\ UNCHANGED <<cmds, srv, aw, incoming, polled, enqueued, published>>
    /\ UNCHANGED <<updating_routes_lock, ur, outbound, bus>>
    /\ UNCHANGED <<telemetry_cache, written, cache_panics, app_settings, pf, live_vars>>

\* lines 156-177 with utils.rs 143-161: the receiver yields something
GetMeshSettings_Recv(r) ==
    /\ gms[r].pc = "wait"
    /\ recv_ready(gms[r].rx)
    /\ LET out == await_mesh_response_recv(bus_delivery(gms[r].rx), mesh_settings_closure)
       IN  gms' = [gms EXCEPT ![r] =
                CASE out.tag = "Continue" -> [@ EXCEPT !.rx = @ + 1]
                  [] out.tag = "Ok" -> [gms_return(r, "200", "", 0, out.value) EXCEPT !.rx = @ + 1]
                  [] out.tag = "Err" -> gms_return(r, "504", out.error, 0, Undecodable)]
    /\ UNCHANGED <<cmds, srv, aw, incoming, polled, enqueued, published>>
    /\ UNCHANGED <<updating_routes_lock, ur, outbound, bus>>
    /\ UNCHANGED <<telemetry_cache, written, cache_panics, app_settings, pf, live_vars>>

\* utils.rs 141, 164-168 with lines 173-176: the deadline passes
GetMeshSettings_Timeout(r) ==
    /\ gms[r].pc = "wait"
    /\ timeout_fires(gms[r].rx)
    /\ gms' = [gms EXCEPT ![r] =
            gms_return(r, "504", TIMEOUT_ERROR,
                       as_secs(Duration_from_secs(gms[r].timeout)), Undecodable)]
    /\ UNCHANGED <<cmds, srv, aw, incoming, polled, enqueued, published>>
    /\ UNCHANGED <<updating_routes_lock, ur, outbound, bus>>
    /\ UNCHANGED <<telemetry_cache, written, cache_panics, app_settings, pf, live_vars>>

(***************************************************************************)
(* routes.rs: set_server_settings and get_server_settings.                 *)
(***************************************************************************)
SettingsOf(rcw, rhw) ==
    [get_settings_timeout_seconds |-> 1, signal_data_timeout_seconds |-> 1,
     route_cost_weight |-> rcw, route_hops_weight |-> rhw]

SettingsFields ==
    {"get_settings_timeout_seconds", "signal_data_timeout_seconds",
     "route_cost_weight", "route_hops_weight"}

\* (mutant) the body replaces the settings: an absent field becomes 0
set_server_settings_Replaces(settings, body) ==
    [f \in SettingsFields |-> IF body[f] # OptNone THEN body[f][1] ELSE 0]

\* lines 108-124: each field present in the body is assigned
set_server_settings(settings, body) ==
    [f \in SettingsFields |-> IF body[f] # OptNone THEN body[f][1] ELSE settings[f]]

\* lines 102-127: the whole handler, under the settings lock
SetServerSettings(body) ==
    /\ app_settings' = set_server_settings(app_settings, body)
    /\ srv' = [prev |-> app_settings, body |-> body, got |-> OptNone]
    /\ UNCHANGED <<cmds, gms, aw, incoming, polled, enqueued, published>>
    /\ UNCHANGED <<telemetry_cache, written, cache_panics, pf, routes_vars, live_vars>>

\* lines 181-185: the settings are cloned under the lock and returned
GetServerSettings ==
    /\ srv' = [srv EXCEPT !.got = Some(app_settings)]
    /\ UNCHANGED <<cmds, gms, aw, incoming, polled, enqueued, published>>
    /\ UNCHANGED <<telemetry_cache, written, cache_panics, app_settings, pf, routes_vars, live_vars>>

(***************************************************************************)
(* mqtt.rs: subscriber_task; routes.rs: set_mesh_settings.                 *)
(***************************************************************************)
\* what EventLoop::poll() yields
PublishEvent(payload) == [event |-> "Publish", payload |-> payload]
OtherEvent == [event |-> "Other", payload |-> Undecodable]
PollError == [event |-> "Err", payload |-> Undecodable]

\* mqtt.rs 33-39: the call logs the topic and the size of the payload; the
\* result is the content of the broadcast channel after the call
handle_mqtt_message(topic, payload, tx_to_handlers) == tx_to_handlers

\* mqtt.rs 48-60: one turn of the loop on what poll() yielded; after an
\* error the task sleeps and polls again
SubscriberTask ==
    /\ polled < Len(incoming)
    /\ polled' = polled + 1
    /\ LET yielded == incoming[polled + 1]
       IN  bus' = IF yielded.event = "Publish"
                  THEN handle_mqtt_message("incoming", yielded.payload, bus)
                  ELSE bus
    /\ UNCHANGED <<cmds, gms, srv, aw, incoming, enqueued, published>>
    /\ UNCHANGED <<updating_routes_lock, ur, outbound>>
    /\ UNCHANGED <<telemetry_cache, written, cache_panics, app_settings, pf, live_vars>>

\* the broker and the connection: the event loop has one more thing to yield
EventArrives(yielded) ==
    /\ Len(incoming) < MaxIncoming
    /\ incoming' = Append(incoming, yielded)
    /\ UNCHANGED <<cmds, gms, srv, aw, polled, enqueued, published>>
    /\ UNCHANGED <<telemetry_cache, written, cache_panics, app_settings, pf, routes_vars, live_vars>>

\* what may go wrong inside send_command_protobuf
Faults == {"none", "encode", "send"}

ENCODE_ERROR_MESSAGE == "Failed to encode command as protobuf"

\* (mutant) the payload is on the queue although the call reports the failure
send_command_protobuf_EnqueuesThenFails(message, fault) ==
    IF fault = "encode"
    THEN [ok |-> FALSE, error |-> ENCODE_ERROR_MESSAGE, sent |-> <<>>]
    ELSE IF fault = "send"
    THEN [ok |-> FALSE, error |-> SEND_ERROR_MESSAGE, sent |-> <<message>>]
    ELSE [ok |-> TRUE, error |-> "", sent |-> <<message>>]

\* routes.rs 30-56: the message is encoded and sent to the queue of the
\* publisher task; sent is what the queue has taken when the call returns
send_command_protobuf(message, fault) ==
    IF fault = "encode"
    THEN [ok |-> FALSE, error |-> ENCODE_ERROR_MESSAGE, sent |-> <<>>]
    ELSE IF fault = "send"
    THEN [ok |-> FALSE, error |-> SEND_ERROR_MESSAGE, sent |-> <<>>]
    ELSE [ok |-> TRUE, error |-> "", sent |-> <<message>>]

\* routes.rs 84-88 and 491-495: a handler that sends one command and answers
\* 200 when send_command_protobuf returned Ok, 500 with its message otherwise
CommandHandler(c, handler, message, fault) ==
    /\ cmds[c].pc = "start"
    /\ fault = "none" => Len(outbound) < ChannelCapacity
    /\ LET sending == send_command_protobuf(message, fault)
       IN  /\ outbound' = outbound \o sending.sent
           /\ enqueued' = enqueued \o sending.sent
           /\ cmds' = [cmds EXCEPT ![c] =
                    [pc |-> "done", handler |-> handler, message |-> message,
                     resp |-> IF sending.ok THEN "200" ELSE "500",
                     error |-> sending.error]]
    /\ UNCHANGED <<gms, srv, aw, incoming, polled, published>>
    /\ UNCHANGED <<updating_routes_lock, ur, bus>>
    /\ UNCHANGED <<telemetry_cache, written, cache_panics, app_settings, pf, live_vars>>

\* routes.rs 68-89: set_mesh_settings, the whole handler
SetMeshSettings(c, v, fault) ==
    CommandHandler(c, "set_mesh_settings", MeshSettingsMsg(v), fault)

\* routes.rs 476-496: get_ad_hoc_data, the whole handler
GetAdHocData(c, node_id, fault) ==
    CommandHandler(c, "get_ad_hoc_data", GetAdHocTelemetryMsg(node_id), fault)

(***************************************************************************)
(* SpecMqtt: the two MQTT tasks beside the broker and set_mesh_settings    *)
(* requests.                                                               *)
(***************************************************************************)
\* the MeshSettings bodies a client posts
MeshSettingsBodies == {1, 2}

\* the nodes a client asks ad hoc telemetry from
AdHocNodes == {1}

MqttEvents ==
    { PublishEvent(TelemetryMsg(1)), PublishEvent(MeshSettingsMsg(1)),
      OtherEvent, PollError }

InitMqtt ==
    /\ telemetry_cache = RingBuffer_new(0)
    /\ written = <<>>
    /\ cache_panics = 0
    /\ app_settings = SettingsOf(1, 0)
    /\ pf = NoFrame
    /\ RoutesIdle
    /\ LiveIdle
    /\ ExtIdle

NextMqtt ==
    \/ \E yielded \in MqttEvents : EventArrives(yielded)
    \/ SubscriberTask
    \/ \E c \in Commands, v \in MeshSettingsBodies, fault \in Faults :
          SetMeshSettings(c, v, fault)
    \/ \E c \in Commands, node_id \in AdHocNodes, fault \in Faults :
          GetAdHocData(c, node_id, fault)
    \/ PublisherTask

SpecMqtt == InitMqtt /\ [][NextMqtt]_vars

(***************************************************************************)
(* SpecAwait: one call of await_mesh_response with the callback of         *)
(* get_mesh_settings, on receiver results drawn from bounded sets.         *)
(*   aw.deliveries: what recv() yields before the deadline, in order;      *)
(*   aw.closed: the channel is closed after them (otherwise nothing more   *)
(*   arrives); aw.taken: how many results the call has taken;              *)
(*   aw.calls (ghost): the messages the callback was called with           *)
(***************************************************************************)
MaxDeliveries == 3     \* results recv() yields before the deadline
MaxTimeout == 2        \* timeouts in 1..MaxTimeout seconds

Deliveries == {RecvOk(payload) : payload \in GmsPayloads} \cup {RecvLagged}

\* the i-th result of recv()
Yielded(i) == IF i <= Len(aw.deliveries) THEN aw.deliveries[i] ELSE RecvClosed

InitAwait ==
    /\ telemetry_cache = RingBuffer_new(0)
    /\ written = <<>>
    /\ cache_panics = 0
    /\ app_settings = SettingsOf(1, 0)
    /\ pf = NoFrame
    /\ RoutesIdle
    /\ LiveIdle
    /\ gms = [r \in Getters |-> IdleGetter]
    /\ srv = [prev |-> app_settings,
              body |-> [f \in DOMAIN app_settings |-> OptNone],
              got |-> OptNone]
    /\ incoming = <<>>
    /\ polled = 0
    /\ cmds = [c \in Commands |-> IdleCommand]
    /\ enqueued = <<>>
    /\ published = <<>>
    /\ \E n \in 0..MaxDeliveries, closed \in BOOLEAN, secs \in 1..MaxTimeout :
         \E deliveries \in [1..n -> Deliveries] :
            aw = [pc |-> "running", deliveries |-> deliveries, closed |-> closed,
                  timeout_duration |-> Duration_from_secs(secs),
                  taken |-> 0, calls |-> <<>>, result |-> AwaitContinue, error_secs |-> 0]

\* (mutant) the call goes on receiving after the callback yielded a value
AwaitRecv_GoesOn ==
    /\ aw.pc = "running"
    /\ aw.taken < Len(aw.deliveries) \/ aw.closed
    /\ LET item == Yielded(aw.taken + 1)
           out == await_mesh_response_recv(item, mesh_settings_closure)
       IN  aw' = [aw EXCEPT
                    !.taken = @ + 1,
                    !.calls = IF item.recv = "Ok" /\ Decodes(item.payload)
                              THEN Append(@, item.payload) ELSE @,
                    !.result = out,
                    !.pc = IF out.tag = "Err" THEN "returned" ELSE "running"]
    /\ UNCHANGED <<cmds, gms, srv, incoming, polled, enqueued, published>>
    /\ UNCHANGED <<telemetry_cache, written, cache_panics, app_settings, pf, routes_vars, live_vars>>

\* utils.rs 143-161: recv() yields its next result and the loop takes it
AwaitRecv ==
    /\ aw.pc = "running"
    /\ aw.taken < Len(aw.deliveries) \/ aw.closed
    /\ LET item == Yielded(aw.taken + 1)
           out == await_mesh_response_recv(item, mesh_settings_closure)
       IN  aw' = [aw EXCEPT
                    !.taken = @ + 1,
                    !.calls = IF item.recv = "Ok" /\ Decodes(item.payload)
                              THEN Append(@, item.payload) ELSE @,
                    !.result = out,
                    !.pc = IF out.tag = "Continue" THEN "running" ELSE "returned"]
    /\ UNCHANGED <<cmds, gms, srv, incoming, polled, enqueued, published>>
    /\ UNCHANGED <<telemetry_cache, written, cache_panics, app_settings, pf, routes_vars, live_vars>>

\* (mutant) the deadline is counted from the last payload taken
AwaitTimeout_RestartsAtEachPayload ==
    /\ aw.pc = "running"
    /\ aw.taken = 0
    /\ aw.taken = Len(aw.deliveries) /\ ~aw.closed
    /\ aw' = [aw EXCEPT !.pc = "returned", !.result = AwaitErr(TIMEOUT_ERROR),
                        !.error_secs = as_secs(aw.timeout_duration)]
    /\ UNCHANGED <<cmds, gms, srv, incoming, polled, enqueued, published>>
    /\ UNCHANGED <<telemetry_cache, written, cache_panics, app_settings, pf, routes_vars, live_vars>>

\* utils.rs 141, 164-168: nothing more arrives and the deadline passes
AwaitTimeout ==
    /\ aw.pc = "running"
    /\ aw.taken = Len(aw.deliveries) /\ ~aw.closed
    /\ aw' = [aw EXCEPT !.pc = "returned", !.result = AwaitErr(TIMEOUT_ERROR),
                        !.error_secs = as_secs(aw.timeout_duration)]
    /\ UNCHANGED <<cmds, gms, srv, incoming, polled, enqueued, published>>
    /\ UNCHANGED <<telemetry_cache, written, cache_panics, app_settings, pf, routes_vars, live_vars>>

NextAwait ==
    \/ AwaitRecv
    \/ AwaitTimeout

SpecAwait == InitAwait /\ [][NextAwait]_vars

\* the runtime polls the task whenever the receiver or the timer wakes it
SpecAwaitLive == SpecAwait /\ WF_vars(AwaitRecv) /\ WF_vars(AwaitTimeout)

(***************************************************************************)
(* SpecGms: get_mesh_settings handlers beside the publisher task and the   *)
(* bus, for each configured timeout.                                       *)
(***************************************************************************)
NoBody == [f \in SettingsFields |-> OptNone]

InitGms ==
    /\ telemetry_cache = RingBuffer_new(0)
    /\ written = <<>>
    /\ cache_panics = 0
    /\ \E t \in 1..MaxTimeout :
           app_settings = [SettingsOf(1, 0) EXCEPT !.get_settings_timeout_seconds = t]
    /\ pf = NoFrame
    /\ RoutesIdle
    /\ LiveIdle
    /\ ExtIdle

NextGms ==
    \/ \E r \in Getters, ok \in BOOLEAN : GetMeshSettings_SendRequest(r, ok)
    \/ \E r \in Getters : GetMeshSettings_Subscribe(r)
    \/ \E r \in Getters : GetMeshSettings_Recv(r)
    \/ \E r \in Getters : GetMeshSettings_Timeout(r)
    \/ PublisherTask
    \/ \E payload \in GmsPayloads : BusSend(payload)

SpecGms == InitGms /\ [][NextGms]_vars

(***************************************************************************)
(* SpecSettings: set_server_settings and get_server_settings on bodies     *)
(* drawn from bounded sets.                                                *)
(***************************************************************************)
\* f32 values a JSON body can carry for a weight
WeightValues == {-1, F32_INF}

ServerSettingsBodies ==
    { [get_settings_timeout_seconds |-> a, signal_data_timeout_seconds |-> b,
       route_cost_weight |-> c, route_hops_weight |-> d] :
        a \in {OptNone} \cup {Some(t) : t \in 1..MaxTimeout},
        b \in {OptNone} \cup {Some(t) : t \in 1..MaxTimeout},
        c \in {OptNone} \cup {Some(w) : w \in WeightValues},
        d \in {OptNone} \cup {Some(w) : w \in WeightValues} }

InitSettings ==
    /\ telemetry_cache = RingBuffer_new(0)
    /\ written = <<>>
    /\ cache_panics = 0
    /\ app_settings = SettingsOf(1, 0)
    /\ pf = NoFrame
    /\ RoutesIdle
    /\ LiveIdle
    /\ ExtIdle

NextSettings ==
    \/ \E body \in ServerSettingsBodies : SetServerSettings(body)
    \/ GetServerSettings

SpecSettings == InitSettings /\ [][NextSettings]_vars

(***************************************************************************)
(* SpecPath: compute_next_hops_map on inputs drawn from bounded sets.      *)
(***************************************************************************)
MaxGateways == 2       \* length of gateway_ids
MaxRouteWeight == 1    \* route_cost_weight, route_hops_weight in 0..MaxRouteWeight

NodeIds == {1, 2, 3, 10}
GatewayCandidates == {3, 10}

\* the links a SignalData report may carry: <<to, from>>
TemplateEdges == {<<10, 1>>, <<10, 2>>, <<2, 3>>, <<3, 1>>, <<1, 2>>, <<3, 10>>}

\* (rssi, snr) observations; the last one is below MIN_SNR
Observations ==
    << [rssi |-> -80, snr |-> 5], [rssi |-> -50, snr |-> 15], [rssi |-> -60, snr |-> -25] >>

SeqsUpTo(S, n) == UNION {[1..k -> S] : k \in 0..n}

\* the adjacency map that reports from `keys` with observations obs build
\* (obs[e] = 0: the link e was not observed)
AdjacencyOf(keys, obs) ==
    [to \in keys |->
        [from \in {x \in NodeIds : <<to, x>> \in TemplateEdges /\ obs[<<to, x>>] # 0} |->
            compute_edge_weight_proportionalised(Observations[obs[<<to, from>>]].rssi,
                                                 Observations[obs[<<to, from>>]].snr)]]

\* which observation each candidate link got (0: none); the links into node 3
\* are either unobserved or got the first observation
LinkObservations ==
    {obs \in [TemplateEdges -> 0..Len(Observations)] :
        \A e \in TemplateEdges : e[1] = 3 => obs[e] <= 1}

InitPath ==
    /\ telemetry_cache = RingBuffer_new(0)
    /\ written = <<>>
    /\ cache_panics = 0
    /\ \E rcw \in 0..MaxRouteWeight, rhw \in 0..MaxRouteWeight :
           app_settings = SettingsOf(rcw, rhw)
    /\ \E keys \in {NodeIds, NodeIds \ {3}} :
       \E obs \in LinkObservations :
       \E gws \in SeqsUpTo(GatewayCandidates, MaxGateways) :
           pf = compute_next_hops_map_call(AdjacencyOf(keys, obs), gws)
    /\ RoutesIdle
    /\ LiveIdle
    /\ ExtIdle

PathForGateway ==
    /\ pf.pc = "for_gateway"
    /\ pf' = pf_for_gateway(pf)
    /\ UNCHANGED <<telemetry_cache, written, cache_panics, app_settings, routes_vars, live_vars, ext_vars>>

PathDijkstraStep ==
    /\ pf.pc = "dijkstra" /\ pf.unvisited # {}
    /\ pf' = pf_dijkstra_step(pf, app_settings)
    /\ UNCHANGED <<telemetry_cache, written, cache_panics, app_settings, routes_vars, live_vars, ext_vars>>

PathMerge ==
    /\ pf.pc = "dijkstra" /\ pf.unvisited = {}
    /\ \E pos \in pf_merge_positions(pf) : pf' = pf_merge(pf, pos)
    /\ UNCHANGED <<telemetry_cache, written, cache_panics, app_settings, routes_vars, live_vars, ext_vars>>

PathCollect ==
    /\ pf.pc = "collect"
    /\ pf' = pf_collect(pf)
    /\ UNCHANGED <<telemetry_cache, written, cache_panics, app_settings, routes_vars, live_vars, ext_vars>>

NextPath == PathForGateway \/ PathDijkstraStep \/ PathMerge \/ PathCollect

SpecPath == InitPath /\ [][NextPath]_vars

(***************************************************************************)
(* SpecRoutes: concurrent update_routes requests.                          *)
(***************************************************************************)
RoutesPayloads ==
    { SignalDataMsg(10, TRUE, <<[from |-> 1, rssi |-> -50, snr |-> 15]>>),
      SignalDataMsg(2, FALSE, <<[from |-> 1, rssi |-> -60, snr |-> -25]>>),
      TelemetryMsg(1),
      Undecodable }

InitRoutes ==
    /\ telemetry_cache = RingBuffer_new(0)
    /\ written = <<>>
    /\ cache_panics = 0
    /\ app_settings = SettingsOf(1, 0)
    /\ pf = NoFrame
    /\ RoutesIdle
    /\ LiveIdle
    /\ ExtIdle

NextRoutes ==
    \/ \E r \in Requests : UpdateRoutes_TryLock(r)
    \/ \E r \in Requests, ok \in BOOLEAN : UpdateRoutes_SendRequest(r, ok)
    \/ \E r \in Requests : UpdateRoutes_Subscribe(r)
    \/ \E r \in Requests : UpdateRoutes_Recv(r)
    \/ \E r \in Requests : UpdateRoutes_Timeout(r)
    \/ \E r \in Requests : UpdateRoutes_Compute(r)
    \/ \E r \in Requests : UpdateRoutes_Panic(r)
    \/ \E r \in Requests, ok \in BOOLEAN : UpdateRoutes_SendNextHops(r, ok)
    \/ PublisherTask
    \/ \E payload \in RoutesPayloads : BusSend(payload)

SpecRoutes == InitRoutes /\ [][NextRoutes]_vars

(***************************************************************************)
(* routes.rs: handle_live_info_websocket, one task per session.            *)
(*   pc: "closed" -> "opened" -> "send_cache" -> "subscribe" -> "select"   *)
(*       -> "on_message" -> "cache_write" -> "subscribe" ...               *)
(*       "select_ws": the select! with its mesh branch disabled            *)
(*       "ended": the task returned; "panicked": the task panicked         *)
(***************************************************************************)
\* the frames of TelemetryWSPacket; idx is the bus position a frame came from
\* (mutant) the cache frame lists the newest item first
CacheFrame_NewestFirst(items) ==
    [type |-> "cache", data |-> [i \in 1..Len(items) |-> items[Len(items) + 1 - i]],
     idx |-> 0]

CacheFrame(items) == [type |-> "cache", data |-> items, idx |-> 0]
TelemetryFrame(t, idx) == [type |-> "telemetry", data |-> <<t>>, idx |-> idx]
ErrorFrame(idx) == [type |-> "error", data |-> <<>>, idx |-> idx]

\* WebSocket::send fails once the client is gone
send_fails(s) == conn[s] # "open"

\* lines 420-423
WS_Open(s) ==
    /\ ws_task[s].pc = "closed"
    /\ websocket_count' = fetch_add(websocket_count)
    /\ ws_task' = [ws_task EXCEPT ![s].pc = "opened"]
    /\ UNCHANGED <<conn, frames, bus>>
    /\ UNCHANGED <<telemetry_cache, written, cache_panics, app_settings, pf,
                   updating_routes_lock, ur, outbound, ext_vars>>

\* lines 427-434: the cache is serialised under its lock
WS_Snapshot(s) ==
    /\ ws_task[s].pc = "opened"
    /\ ws_task' = [ws_task EXCEPT ![s].pc = "send_cache",
                                  ![s].snapshot = RingBuffer_into_iter(telemetry_cache),
                                  ![s].snap_at = Len(written)]
    /\ UNCHANGED <<websocket_count, conn, frames, bus>>
    /\ UNCHANGED <<telemetry_cache, written, cache_panics, app_settings, pf,
                   updating_routes_lock, ur, outbound, ext_vars>>

\* lines 317-321
on_websocket_disconnect(count) == fetch_sub(count)

\* lines 436-444
WS_SendCache(s) ==
    /\ ws_task[s].pc = "send_cache"
    /\ IF send_fails(s)
       THEN /\ websocket_count' = on_websocket_disconnect(websocket_count)
            /\ ws_task' = [ws_task EXCEPT ![s].pc = "ended", ![s].decrements = @ + 1]
            /\ UNCHANGED frames
       ELSE /\ frames' = [frames EXCEPT ![s] = Append(@, CacheFrame(ws_task[s].snapshot))]
            /\ ws_task' = [ws_task EXCEPT ![s].pc = "subscribe"]
            /\ UNCHANGED websocket_count
    /\ UNCHANGED <<conn, bus>>
    /\ UNCHANGED <<telemetry_cache, written, cache_panics, app_settings, pf,
                   updating_routes_lock, ur, outbound, ext_vars>>

\* line 450: every iteration of the loop creates a new receiver
WS_Subscribe(s) ==
    /\ ws_task[s].pc = "subscribe"
    /\ ws_task' = [ws_task EXCEPT ![s].pc = "select",
                                  ![s].rx = subscribe,
                                  ![s].first_rx = IF @ = 0 THEN subscribe ELSE @]
    /\ UNCHANGED <<websocket_count, conn, frames, bus>>
    /\ UNCHANGED <<telemetry_cache, written, cache_panics, app_settings, pf,
                   updating_routes_lock, ur, outbound, ext_vars>>

\* line 455: the mesh branch of select!; Err(Lagged) does not match the
\* pattern Ok(bytes), which disables the branch for this select!
WS_RecvMesh(s) ==
    /\ ws_task[s].pc = "select"
    /\ recv_ready(ws_task[s].rx)
    /\ IF recv_lagged(ws_task[s].rx)
       THEN ws_task' = [ws_task EXCEPT ![s].pc = "select_ws"]
       ELSE ws_task' = [ws_task EXCEPT ![s].pc = "on_message",
                                       ![s].bytes = bus[ws_task[s].rx]]
    /\ UNCHANGED <<websocket_count, conn, frames, bus>>
    /\ UNCHANGED <<telemetry_cache, written, cache_panics, app_settings, pf,
                   updating_routes_lock, ur, outbound, ext_vars>>

\* lines 323-342 and 345-367: on_message_from_mesh up to its send; a failed
\* send runs on_websocket_disconnect and returns to the loop of line 449
WS_OnMessage(s) ==
    /\ ws_task[s].pc = "on_message"
    /\ LET payload == ws_task[s].bytes
           idx == ws_task[s].rx
       IN  IF Decodes(payload) /\ payload.kind # "LiveTelemetry"
           THEN /\ ws_task' = [ws_task EXCEPT ![s].pc = "subscribe"]
                /\ UNCHANGED <<websocket_count, frames>>
           ELSE IF send_fails(s)
           THEN /\ websocket_count' = on_websocket_disconnect(websocket_count)
                /\ ws_task' = [ws_task EXCEPT ![s].pc = "subscribe",
                                              ![s].decrements = @ + 1]
                /\ UNCHANGED frames
           ELSE /\ frames' = [frames EXCEPT ![s] =
                                 Append(@, IF Decodes(payload)
                                           THEN TelemetryFrame(payload.t, idx)
                                           ELSE ErrorFrame(idx))]
                /\ ws_task' = [ws_task EXCEPT ![s].pc =
                                 IF Decodes(payload) THEN "cache_write" ELSE "subscribe"]
                /\ UNCHANGED websocket_count
    /\ UNCHANGED <<conn, bus>>
    /\ UNCHANGED <<telemetry_cache, written, cache_panics, app_settings, pf,
                   updating_routes_lock, ur, outbound, ext_vars>>

\* line 343: the telemetry is written to the cache after it was sent
WS_CacheWrite(s) ==
    /\ ws_task[s].pc = "cache_write"
    /\ IF RingBuffer_write_panics(telemetry_cache)
       THEN /\ ws_task' = [ws_task EXCEPT ![s].pc = "panicked"]
            /\ cache_panics' = cache_panics + 1
            /\ UNCHANGED <<telemetry_cache, written>>
       ELSE /\ telemetry_cache' = RingBuffer_write(telemetry_cache, ws_task[s].bytes.t)
            /\ written' = Append(written, ws_task[s].bytes.t)
            /\ ws_task' = [ws_task EXCEPT ![s].pc = "subscribe"]
            /\ UNCHANGED cache_panics
    /\ UNCHANGED <<websocket_count, conn, frames, bus>>
    /\ UNCHANGED <<app_settings, pf, updating_routes_lock, ur, outbound, ext_vars>>

\* lines 459-464: websocket.recv() yields None or an error
WS_RecvDisconnect(s) ==
    /\ ws_task[s].pc \in {"select", "select_ws"}
    /\ conn[s] # "open"
    /\ websocket_count' = on_websocket_disconnect(websocket_count)
    /\ ws_task' = [ws_task EXCEPT ![s].pc = "ended", ![s].decrements = @ + 1]
    /\ UNCHANGED <<conn, frames, bus>>
    /\ UNCHANGED <<telemetry_cache, written, cache_panics, app_settings, pf,
                   updating_routes_lock, ur, outbound, ext_vars>>

\* lines 459-465: websocket.recv() yields a frame of the client; the loop
\* goes round
WS_RecvClientFrame(s) ==
    /\ ws_task[s].pc \in {"select", "select_ws"}
    /\ conn[s] = "open"
    /\ ws_task' = [ws_task EXCEPT ![s].pc = "subscribe"]
    /\ UNCHANGED <<websocket_count, conn, frames, bus>>
    /\ UNCHANGED <<telemetry_cache, written, cache_panics, app_settings, pf,
                   updating_routes_lock, ur, outbound, ext_vars>>

\* the client closes the connection, or the connection fails
ClientDisconnect(s, how) ==
    /\ ws_task[s].pc \notin {"closed", "ended", "panicked"}
    /\ conn[s] = "open"
    /\ conn' = [conn EXCEPT ![s] = how]
    /\ UNCHANGED <<websocket_count, ws_task, frames, bus>>
    /\ UNCHANGED <<telemetry_cache, written, cache_panics, app_settings, pf,
                   updating_routes_lock, ur, outbound, ext_vars>>

(***************************************************************************)
(* SpecLive: live sessions on the bus.                                     *)
(***************************************************************************)
LivePayloads ==
    {TelemetryMsg(t) : t \in 1..MaxTelemetry}
        \cup {Undecodable, SignalDataMsg(1, FALSE, <<>>)}

InitLive ==
    /\ \E capacity \in 0..MaxLiveCapacity : telemetry_cache = RingBuffer_new(capacity)
    /\ written = <<>>
    /\ cache_panics = 0
    /\ app_settings = SettingsOf(1, 0)
    /\ pf = NoFrame
    /\ RoutesIdle
    /\ LiveIdle
    /\ ExtIdle

NextLive ==
    \/ \E s \in Sessions : WS_Open(s)
    \/ \E s \in Sessions : WS_Snapshot(s)
    \/ \E s \in Sessions : WS_SendCache(s)
    \/ \E s \in Sessions : WS_Subscribe(s)
    \/ \E s \in Sessions : WS_RecvMesh(s)
    \/ \E s \in Sessions : WS_OnMessage(s)
    \/ \E s \in Sessions : WS_CacheWrite(s)
    \/ \E s \in Sessions : WS_RecvDisconnect(s)
    \/ \E s \in Sessions : WS_RecvClientFrame(s)
    \/ \E s \in Sessions, how \in {"closed", "error"} : ClientDisconnect(s, how)
    \/ \E payload \in LivePayloads : BusSend(payload)

SpecLive == InitLive /\ [][NextLive]_vars

(***************************************************************************)
(* Claims about update_routes (SpecRoutes).                                *)
(***************************************************************************)
\* the handler of r is between a successful try_lock and its return
InCycle(r) ==
    ur[r].pc \in {"send_request", "subscribe", "collect", "compute", "send_next_hops"}

\* the step in which the request r is answered without entering the cycle
Refused(r) == ur[r].pc = "start" /\ ur'[r].pc = "done"

\* the step in which the request r enters the cycle
Admitted(r) == ur[r].pc = "start" /\ ur'[r].pc = "send_request"

\* C1: at most one update_routes handler is inside the update cycle at any
\* time; a request that arrives while another handler holds the lock is
\* answered 409 with the conflict message, enqueues nothing on the outbound
\* queue and changes no shared state nor the other handler; a request that
\* arrives while the lock is free proceeds, so of two overlapping requests
\* exactly one proceeds.
C1_AtMostOneHandlerInCycle ==
    /\ [](Cardinality({r \in Requests : InCycle(r)}) <= 1)
    /\ [][\A r \in Requests :
            /\ Refused(r) =>
                 /\ updating_routes_lock \in Requests \ {r}
                 /\ ur'[r].resp = "409" /\ ur'[r].error = CONFLICT_MESSAGE
                 /\ outbound' = outbound
                 /\ updating_routes_lock' = updating_routes_lock
                 /\ bus' = bus /\ app_settings' = app_settings
                 /\ telemetry_cache' = telemetry_cache
                 /\ \A o \in Requests \ {r} : ur'[o] = ur[o]
            /\ (ur[r].pc = "start" /\ ur'[r].pc # "start" /\ updating_routes_lock = 0)
                 => Admitted(r) /\ updating_routes_lock' = r
            /\ (ur[r].pc = "start" /\ ur'[r].pc # "start" /\ updating_routes_lock # 0)
                 => Refused(r)]_vars

\* two requests overlap: one is collecting signal data, the other got 409
C1_Witness ==
    \E r, o \in Requests :
        /\ r # o
        /\ ur[r].pc = "collect" /\ updating_routes_lock = r
        /\ ur[o].pc = "done" /\ ur[o].resp = "409"

\* what a handler that subscribed at rx0 and has read up to rx has accumulated
RECURSIVE collect_signal_data(_, _)
collect_signal_data(acc, payloads) ==
    IF payloads = <<>> THEN acc
    ELSE LET p == Head(payloads)
         IN  collect_signal_data(
                 IF p.kind = "SignalData"
                 THEN [adjacency_map |-> signal_data_adjacency(acc.adjacency_map, p),
                       gateway_ids |-> signal_data_gateways(acc.gateway_ids, p)]
                 ELSE acc,
                 Tail(payloads))

\* C2: the updating-routes lock is held exactly while its handler is inside
\* the cycle, so it is free after every exit (200, either 500, a panic of the
\* path computation); a request is answered 409 only while another handler
\* is inside its cycle, never after every earlier cycle has returned; and
\* what a cycle has accumulated comes only from the payloads its own
\* receiver has read, nothing from an earlier cycle.
C2_LockReleasedOnEveryExit ==
    /\ [](\A r \in Requests : (updating_routes_lock = r) <=> InCycle(r))
    /\ [](\A r \in Requests : ur[r].pc = "subscribe" =>
             ur[r].adjacency_map = EmptyMap /\ ur[r].gateway_ids = <<>>)
    /\ [](\A r \in Requests : ur[r].pc = "collect" =>
             [adjacency_map |-> ur[r].adjacency_map, gateway_ids |-> ur[r].gateway_ids]
                = collect_signal_data([adjacency_map |-> EmptyMap, gateway_ids |-> <<>>],
                                      SubSeq(bus, ur[r].rx0, ur[r].rx - 1)))
    /\ [][\A r \in Requests :
            (ur[r].resp = "none" /\ ur'[r].resp = "409")
                => \E o \in Requests \ {r} : InCycle(o)]_vars

\* one cycle was abandoned with 500 after signal data was on the bus, and a
\* later request is inside its own cycle with a receiver created afterwards
C2_Witness ==
    \E r, o \in Requests :
        /\ r # o
        /\ ur[o].pc = "done" /\ ur[o].resp = "500"
        /\ ur[r].pc = "collect" /\ ur[r].rx0 > 1
        /\ bus[1].kind = "SignalData"
        /\ updating_routes_lock = r

(***************************************************************************)
(* Claims about the live sessions (SpecLive).                              *)
(***************************************************************************)
\* the sessions that have opened and whose task is still running
OpenSessions == {s \in Sessions : ws_task[s].pc \notin {"closed", "ended", "panicked"}}

\* C9: a session decrements websocket_count exactly once, when it ends, on
\* every disconnect path; so the gauge never underflows and, every handler
\* step being one transition, always equals the number of open sessions.
C9_GaugeCountsOpenSessions ==
    /\ \A s \in Sessions :
           ws_task[s].decrements = IF ws_task[s].pc = "ended" THEN 1 ELSE 0
    /\ websocket_count <= MaxSessions
    /\ websocket_count = Cardinality(OpenSessions)

\* a session has run on_websocket_disconnect twice and, the other session
\* being closed, the gauge has wrapped around below zero
C9_DoubleDecrement ==
    \E s \in Sessions :
        /\ ws_task[s].pc = "ended" /\ ws_task[s].decrements = 2
        /\ \A o \in Sessions \ {s} : ws_task[o].pc = "closed"
        /\ websocket_count = USIZE_MAX

\* the bus positions from `from` on that carry a LiveTelemetry payload
RECURSIVE TelemetryPositions(_)
TelemetryPositions(from) ==
    IF from > Len(bus) THEN <<>>
    ELSE (IF bus[from].kind = "LiveTelemetry" THEN <<from>> ELSE <<>>)
             \o TelemetryPositions(from + 1)

\* the bus positions of the telemetry frames a client has been sent
RECURSIVE SentPositions(_)
SentPositions(fs) ==
    IF fs = <<>> THEN <<>>
    ELSE (IF Head(fs).type = "telemetry" THEN <<Head(fs).idx>> ELSE <<>>)
             \o SentPositions(Tail(fs))

IsPrefix(a, b) == Len(a) <= Len(b) /\ a = SubSeq(b, 1, Len(a))

\* C10: the telemetry frames a session's client has been sent are, in bus
\* order and with none skipped, the LiveTelemetry payloads the bus has carried
\* since the session subscribed (all of them up to the last one sent).
C10_TelemetryForwardedInOrder ==
    \A s \in Sessions :
        ws_task[s].first_rx > 0 =>
            IsPrefix(SentPositions(frames[s]), TelemetryPositions(ws_task[s].first_rx))

\* a client still connected has been sent the second telemetry payload the bus
\* carried after the session subscribed, but not the first
C10_SkippedTelemetry ==
    \E s \in Sessions :
        /\ conn[s] = "open"
        /\ ws_task[s].first_rx = 1
        /\ TelemetryPositions(1) = <<1, 2>>
        /\ SentPositions(frames[s]) = <<2>>

\* C11: the first frame a client is sent is the one cache frame, holding the
\* last min(n, capacity) of the n items written to the cache before the
\* snapshot, oldest first; nothing is sent before it; and when sending it
\* fails the session ends, never subscribes and sends nothing.
C11_FirstFrameIsCacheSnapshot ==
    /\ [](\A s \in Sessions :
            /\ ws_task[s].pc \in {"closed", "opened", "send_cache"} => frames[s] = <<>>
            /\ frames[s] # <<>> =>
                 /\ frames[s][1].type = "cache"
                 /\ frames[s][1].data =
                        LastN(SubSeq(written, 1, ws_task[s].snap_at),
                              Min(ws_task[s].snap_at, telemetry_cache.capacity))
                 /\ \A i \in 2..Len(frames[s]) : frames[s][i].type # "cache")
    /\ [][\A s \in Sessions :
            (ws_task[s].pc = "send_cache" /\ ws_task'[s].pc # "send_cache" /\ send_fails(s))
                => /\ ws_task'[s].pc = "ended"
                   /\ frames'[s] = <<>>]_vars
    /\ [](\A s \in Sessions :
            (ws_task[s].pc = "ended" /\ ws_task[s].first_rx = 0) => frames[s] = <<>>)

\* a client's first frame is the cache frame with two different items, the
\* older one first
C11_Witness ==
    \E s \in Sessions :
        /\ telemetry_cache.capacity = 2
        /\ ws_task[s].snap_at = 2
        /\ written = <<2, 1>>
        /\ frames[s] = <<[type |-> "cache", data |-> <<2, 1>>, idx |-> 0]>>

\* C12: a session that handles a payload decoding to LiveTelemetry sends it as
\* a telemetry frame and writes it into the cache; a payload of any other
\* variant causes neither a frame nor a cache write.
C12_TelemetryIsCachedAndSent ==
    [][\A s \in Sessions :
         /\ (ws_task[s].pc = "on_message" /\ ws_task'[s].pc # "on_message"
                /\ ws_task[s].bytes.kind = "LiveTelemetry")
               => /\ frames'[s] = Append(frames[s],
                                         [type |-> "telemetry",
                                          data |-> <<ws_task[s].bytes.t>>,
                                          idx |-> ws_task[s].rx])
                  /\ ws_task'[s].pc = "cache_write"
         /\ (ws_task[s].pc = "cache_write" /\ ws_task'[s].pc # "cache_write")
               => /\ written' = Append(written, ws_task[s].bytes.t)
                  /\ telemetry_cache'.items # <<>>
                  /\ LastN(RingBuffer_into_iter(telemetry_cache)', 1)
                         = <<ws_task[s].bytes.t>>
         /\ (ws_task[s].pc = "on_message" /\ ws_task'[s].pc # "on_message"
                /\ Decodes(ws_task[s].bytes) /\ ws_task[s].bytes.kind # "LiveTelemetry")
               => /\ frames'[s] = frames[s]
                  /\ telemetry_cache' = telemetry_cache
                  /\ ws_task'[s].pc = "subscribe"]_vars

\* the only session has handled a telemetry payload, its send failed, and the
\* cache (of capacity 1) is still empty
C12_TelemetryNotCached ==
    \E s \in Sessions :
        /\ ws_task[s].pc = "subscribe" /\ ws_task[s].decrements = 1
        /\ ws_task[s].bytes.kind = "LiveTelemetry"
        /\ \A o \in Sessions \ {s} : ws_task[o].pc = "closed"
        /\ telemetry_cache.capacity = 1 /\ telemetry_cache.items = <<>>
        /\ Len(frames[s]) = 1

(***************************************************************************)
(* Claims about compute_next_hops_map and dijkstra (SpecPath).             *)
(***************************************************************************)
PathReturned == pf.pc = "returned"

\* dijkstra has finished its while loop for the gateway gateway_ids[gi]
DijkstraDone == pf.pc = "dijkstra" /\ pf.unvisited = {}

\* the weight the code gives a link whose snr is below MIN_SNR
UnusableWeight == compute_edge_weight_proportionalised(MIN_RSSI, MIN_SNR - 1)

Links(adjacency_map) ==
    {e \in (DOMAIN adjacency_map) \X NodeIds : e[2] \in DOMAIN adjacency_map[e[1]]}

\* C4: every returned next-hop list is sorted ascending by the total_cost of
\* the Dijkstra record each entry was drawn from (best next hop first).
C4_ListsSortedByCost ==
    PathReturned =>
        \A n \in DOMAIN pf.out :
            \A i \in 1..Len(pf.result[n]) : \A j \in 1..Len(pf.result[n]) :
                i < j => pf.result[n][i].total_cost <= pf.result[n][j].total_cost

\* C5 as stated: no returned next-hop list contains a gateway id.
C5_NoGatewayInLists ==
    PathReturned =>
        \A n \in DOMAIN pf.out : \A i \in 1..Len(pf.out[n]) :
            pf.out[n][i] \notin Range(pf.gateway_ids)

\* C5 amended: a gateway id appears in a returned next-hop list only as the
\* direct next hop of a node that gateway hears (a record with hop_count 1);
\* a record with more than one hop never names a gateway, so no gateway relays.
C5_GatewayOnlyAsLastHop ==
    PathReturned =>
        \A n \in DOMAIN pf.out : \A i \in 1..Len(pf.out[n]) :
            pf.out[n][i] \in Range(pf.gateway_ids) =>
                /\ pf.result[n][i].hop_count = 1
                /\ n \in DOMAIN pf.adjacency_map[pf.out[n][i]]

\* a returned map in which a node's next hop is a gateway, next to a two-hop entry
C5_Witness ==
    /\ PathReturned
    /\ \E n \in DOMAIN pf.out : pf.out[n] # <<>> /\ pf.out[n][1] \in Range(pf.gateway_ids)
    /\ \E n \in DOMAIN pf.out : \E i \in 1..Len(pf.out[n]) : pf.result[n][i].hop_count = 2

MissingGateway(f) ==
    \E i \in 1..Len(f.gateway_ids) : f.gateway_ids[i] \notin DOMAIN f.adjacency_map

\* C6: when some gateway id is no key of the adjacency map, the call ends only
\* by returning the empty map: it never reaches the final collection, never
\* panics, and what it returns is empty.
C6_MissingGatewayGivesEmptyMap ==
    MissingGateway(pf) =>
        /\ pf.pc \notin {"collect", "panicked"}
        /\ (PathReturned => pf.out = EmptyMap)

\* the empty map was returned although an earlier gateway had filled the lists
C6_Witness ==
    /\ PathReturned
    /\ MissingGateway(pf)
    /\ pf.gi = 2
    /\ pf.result # EmptyMap
    /\ pf.out = EmptyMap

AllLinksUnusable(adjacency_map) ==
    \A e \in Links(adjacency_map) : adjacency_map[e[1]][e[2]] = UnusableWeight

\* C7: when every link has snr < -20, no vertex other than the source is ever
\* relaxed (each keeps previous = None and total_cost = f32::MAX) and the call
\* returns the empty map.
C7_UnusableLinksGiveEmptyMap ==
    AllLinksUnusable(pf.adjacency_map) =>
        /\ pf.pc = "dijkstra" =>
               \A n \in DOMAIN pf.table :
                   n # pf.gateway_ids[pf.gi] =>
                       pf.table[n].previous = None /\ pf.table[n].total_cost = F32_MAX
        /\ pf.pc # "panicked"
        /\ (PathReturned => pf.out = EmptyMap)

\* the simple paths from a path state, one edge longer, inside the working set ws
ExtendPaths(adjacency_map, ws, S) ==
    S \cup UNION {
        {[node |-> n,
          dist |-> F32Add(st.dist, adjacency_map[st.node][n]),
          hops |-> st.hops + 1,
          prev |-> st.node,
          seen |-> st.seen \cup {n}] : n \in ((DOMAIN adjacency_map[st.node]) \cap ws) \ st.seen}
        : st \in S}

RECURSIVE PathsWithin(_, _, _, _)
PathsWithin(adjacency_map, ws, S, k) ==
    IF k = 0 THEN S ELSE PathsWithin(adjacency_map, ws, ExtendPaths(adjacency_map, ws, S), k - 1)

\* every simple path from g inside ws, as (end node, W, H, predecessor of the end)
SimplePaths(adjacency_map, ws, g) ==
    PathsWithin(adjacency_map, ws,
                {[node |-> g, dist |-> 0, hops |-> 0, prev |-> None, seen |-> {g}]},
                Cardinality(ws) - 1)

\* W * route_cost_weight + H * route_hops_weight of a path
PathCost(s, st) ==
    F32Add(F32Mul(st.dist, s.route_cost_weight),
           F32Mul(st.hops * DistScale, s.route_hops_weight))

NonNegativeInputs ==
    /\ \A e \in Links(pf.adjacency_map) : pf.adjacency_map[e[1]][e[2]] >= 0
    /\ app_settings.route_cost_weight >= 0
    /\ app_settings.route_hops_weight >= 0

\* the scenario: vertices {1,2,3,10}, gateways {10}, links 10<-1, 10<-2, 2<-3
\* (whatever was observed on them), route_cost_weight 1.0, route_hops_weight 0.0
IsScenario ==
    /\ DOMAIN pf.adjacency_map = NodeIds
    /\ Links(pf.adjacency_map) = {<<10, 1>>, <<10, 2>>, <<2, 3>>}
    /\ pf.gateway_ids = <<10>>
    /\ app_settings.route_cost_weight = 1
    /\ app_settings.route_hops_weight = 0

\* C8: with non-negative weights and settings, when dijkstra from g is done
\* every vertex a path reaches inside the working set has total_cost equal to
\* the minimum of W*route_cost_weight + H*route_hops_weight over all such
\* paths, and previous is the predecessor on a path of that cost; and the
\* scenario returns 1 -> [10], 2 -> [10], 3 -> [2].
C8_DijkstraGivesMinimumCost ==
    /\ (DijkstraDone /\ NonNegativeInputs) =>
           LET g     == pf.gateway_ids[pf.gi]
               paths == SimplePaths(pf.adjacency_map, DOMAIN pf.table, g)
           IN  \A n \in DOMAIN pf.table :
                   LET to_n == {st \in paths : st.node = n}
                   IN  to_n # {} =>
                           /\ \A st \in to_n :
                                  pf.table[n].total_cost <= PathCost(app_settings, st)
                           /\ \E st \in to_n :
                                  /\ pf.table[n].total_cost = PathCost(app_settings, st)
                                  /\ pf.table[n].previous = st.prev
    /\ (PathReturned /\ IsScenario) =>
           pf.out = (1 :> <<10>> @@ 2 :> <<10>> @@ 3 :> <<2>>)

\* the scenario has returned its map, node 3 two hops from the gateway over the
\* links 10<-2 (rssi -80, snr 5) and 2<-3 (rssi -50, snr 15)
C8_Witness ==
    /\ PathReturned /\ IsScenario
    /\ pf.out = (1 :> <<10>> @@ 2 :> <<10>> @@ 3 :> <<2>>)
    /\ pf.table[3].hop_count = 2
    /\ pf.table[3].total_cost = 75 + 35

(***************************************************************************)
(* SpecRing: a RingBuffer of any capacity, written with any sequence.      *)
(***************************************************************************)

InitRing ==
    /\ \E c \in 0..MaxCapacity : telemetry_cache = RingBuffer_new(c)
    /\ written = <<>>
    /\ cache_panics = 0
    /\ app_settings = SettingsOf(1, 0)
    /\ pf = NoFrame
    /\ RoutesIdle
    /\ LiveIdle
    /\ ExtIdle

RingWrite(item) ==
    /\ Len(written) < MaxWrites
    /\ written' = Append(written, item)
    /\ IF RingBuffer_write_panics(telemetry_cache)
       THEN /\ cache_panics' = cache_panics + 1
            /\ UNCHANGED telemetry_cache
       ELSE /\ telemetry_cache' = RingBuffer_write(telemetry_cache, item)
            /\ UNCHANGED cache_panics
    /\ UNCHANGED <<app_settings, pf, routes_vars, live_vars, ext_vars>>

NextRing == \E item \in 1..MaxTelemetry : RingWrite(item)

SpecRing == InitRing /\ [][NextRing]_vars

\* C3: iterating the buffer yields the last min(|S|, C) written elements, oldest
\* first; so the iteration length is min(writes, capacity) and a capacity-1
\* buffer iterates exactly the most recent write.
C3_RingIterationIsLastWrites ==
    LET it == RingBuffer_into_iter(telemetry_cache)
        n  == Min(Len(written), telemetry_cache.capacity)
    IN  /\ it = LastN(written, n)
        /\ Len(it) = n
        /\ (telemetry_cache.capacity = 1 /\ written # <<>>)
              => it = <<written[Len(written)]>>

\* a full buffer that has wrapped past its start and overwritten old items
C3_Witness ==
    /\ telemetry_cache.capacity = 2
    /\ Len(written) = 5
    /\ written[4] # written[5]
    /\ RingBuffer_into_iter(telemetry_cache) = <<written[4], written[5]>>

(***************************************************************************)
(* Claims about get_mesh_settings (SpecGms).                               *)
(***************************************************************************)
Returned(r) == gms[r].pc = "done"

\* the payloads on the bus at positions a..b are all decodable and none is
\* a MeshSettings
NoReplyIn(a, b) ==
    \A i \in a..b : Decodes(bus[i]) /\ bus[i].kind # "MeshSettings"

\* 500 comes from a failed enqueue, before any receiver exists
Returned500(r) ==
    gms[r].resp = "500" => gms[r].rx0 = 0 /\ gms[r].error = SEND_ERROR_MESSAGE

\* 200 carries the first MeshSettings the receiver was given
Returned200(r) ==
    gms[r].resp = "200" =>
        /\ gms[r].rx0 > 0
        /\ gms[r].rx - 1 \in gms[r].rx0..Len(bus)
        /\ gms[r].body = bus[gms[r].rx - 1]
        /\ gms[r].body.kind = "MeshSettings"
        /\ NoReplyIn(gms[r].rx0, gms[r].rx - 2)

\* the wait ran into the deadline with nothing matching delivered
TimedOut(r) ==
    /\ gms[r].error = TIMEOUT_ERROR
    /\ gms[r].error_secs = app_settings.get_settings_timeout_seconds
    /\ gms[r].rx = gms[r].end_at + 1
    /\ NoReplyIn(gms[r].rx0, gms[r].end_at)

\* the wait was aborted by a payload that does not decode
AbortedByDecode(r) ==
    /\ gms[r].error = DECODE_ERROR
    /\ gms[r].rx \in gms[r].rx0..gms[r].end_at
    /\ ~Decodes(bus[gms[r].rx])
    /\ NoReplyIn(gms[r].rx0, gms[r].rx - 1)

\* the wait was aborted because the receiver had fallen behind
AbortedByLag(r) ==
    /\ gms[r].error = LAGGED_ERROR
    /\ gms[r].end_at - gms[r].rx + 1 > ChannelCapacity
    /\ NoReplyIn(gms[r].rx0, gms[r].rx - 1)

\* C13 as stated: get_mesh_settings returns 500 without waiting when the
\* request cannot be enqueued, 200 with the first MeshSettings reply, and
\* 504 only as the timeout outcome, with the timed-out message for the
\* configured number of seconds.
C13_504IsTheTimeoutOutcome ==
    \A r \in Getters : Returned(r) =>
        /\ gms[r].resp \in {"500", "200", "504"}
        /\ Returned500(r)
        /\ Returned200(r)
        /\ gms[r].resp = "504" => TimedOut(r)

\* C13 amended: 500 and 200 as stated; 504 is the outcome of every failed
\* wait: it carries the timed-out message with the number of seconds read
\* from the settings when the deadline passes with nothing matching delivered,
\* the decode error when a delivered payload does not decode, and the lagged
\* error when the receiver had fallen behind.
C13_504IsEveryFailedWait ==
    \A r \in Getters : Returned(r) =>
        /\ gms[r].resp \in {"500", "200", "504"}
        /\ Returned500(r)
        /\ Returned200(r)
        /\ gms[r].resp = "504" =>
              /\ gms[r].rx0 > 0
              /\ TimedOut(r) \/ AbortedByDecode(r) \/ AbortedByLag(r)

\* one request timed out after the configured 2 seconds, the other was
\* answered 504 for a payload that does not decode
C13_Witness ==
    /\ Returned(1) /\ gms[1].resp = "504" /\ TimedOut(1) /\ gms[1].error_secs = 2
    /\ Returned(2) /\ gms[2].resp = "504" /\ AbortedByDecode(2)
    /\ gms[2].rx > gms[2].rx0

\* C14: the receiver of get_mesh_settings exists before the request is
\* enqueued, so it is given every payload put on the bus after the enqueue:
\* a 200 carries the first MeshSettings put on the bus after the enqueue, and
\* a wait that timed out had no MeshSettings put on the bus between the
\* enqueue and the deadline.
C14_NoReplyFallsBetween ==
    \A r \in Getters :
        /\ gms[r].rx0 > 0 => gms[r].rx0 <= gms[r].enq_at + 1
        /\ (Returned(r) /\ gms[r].resp = "200") =>
              NoReplyIn(gms[r].enq_at + 1, gms[r].rx - 2)
        /\ (Returned(r) /\ gms[r].resp = "504" /\ gms[r].error = TIMEOUT_ERROR) =>
              NoReplyIn(gms[r].enq_at + 1, gms[r].end_at)

\* a reply was put on the bus after the enqueue and before the receiver
\* existed, and the request timed out
C14_ReplyMissed ==
    \E r \in Getters :
        /\ Returned(r) /\ gms[r].resp = "504" /\ gms[r].error = TIMEOUT_ERROR
        /\ gms[r].enq_at = 0 /\ gms[r].rx0 = 2 /\ gms[r].end_at = 1
        /\ bus = <<MeshSettingsMsg(1)>>

(***************************************************************************)
(* Claims about set_server_settings and get_server_settings                *)
(* (SpecSettings).                                                         *)
(***************************************************************************)
\* after is before with exactly the fields present in body changed
ChangesExactly(before, body, after) ==
    \A f \in SettingsFields :
        IF body[f] = OptNone THEN after[f] = before[f] ELSE after[f] = body[f][1]

\* C15: set_server_settings changes exactly the fields present in the body
\* and leaves the omitted ones at their prior value; applying a body twice
\* gives the same settings as applying it once; a get_server_settings that
\* follows returns the updated fields with all others unchanged.
C15_SetIsFieldwise ==
    /\ ChangesExactly(srv.prev, srv.body, app_settings)
    /\ \A body \in ServerSettingsBodies :
          set_server_settings(set_server_settings(app_settings, body), body)
              = set_server_settings(app_settings, body)
    /\ srv.got # OptNone =>
          /\ srv.got[1] = app_settings
          /\ ChangesExactly(srv.prev, srv.body, srv.got[1])

\* the body carried signal_data_timeout_seconds alone and the GET that
\* followed returned it beside the defaults
C15_Witness ==
    /\ srv.prev = SettingsOf(1, 0)
    /\ srv.body = [NoBody EXCEPT !.signal_data_timeout_seconds = Some(2)]
    /\ srv.got = Some([SettingsOf(1, 0) EXCEPT !.signal_data_timeout_seconds = 2])

\* C16: in every reachable state the four AppSettings values are finite and
\* non-negative.
C16_SettingsFiniteNonNegative ==
    \A f \in SettingsFields : app_settings[f] >= 0 /\ app_settings[f] < F32_INF

\* a negative and a non-finite weight are stored
C16_BadWeightsStored ==
    /\ app_settings.route_cost_weight = -1
    /\ app_settings.route_hops_weight = F32_INF
    /\ srv.got = Some(app_settings)

(***************************************************************************)
(* Claims about publisher_task (SpecRoutes).                               *)
(***************************************************************************)
\* the payloads of the attempts so far, in order
AttemptedPayloads == [i \in DOMAIN published |-> published[i].payload]

RECURSIVE PublishPayloads(_)
PublishPayloads(events) ==
    IF events = <<>> THEN <<>>
    ELSE IF Head(events).event = "Publish"
         THEN <<Head(events).payload>> \o PublishPayloads(Tail(events))
         ELSE PublishPayloads(Tail(events))

\* C17: every incoming publish that subscriber_task has polled is on the
\* fan-out bus, in arrival order.
C17_PolledPublishesAreOnTheBus ==
    bus = PublishPayloads(SubSeq(incoming, 1, polled))

\* a publish was polled and handled, and the bus is empty
C17_PublishNotForwarded ==
    /\ polled = 1
    /\ incoming[1] = PublishEvent(TelemetryMsg(1))
    /\ bus = <<>>

(***************************************************************************)
(* Claims about await_mesh_response (SpecAwait).                           *)
(***************************************************************************)
\* a payload that decodes, given to the callback
Decoded(item) == item.recv = "Ok" /\ Decodes(item.payload)

\* the callback ignores the message / yields a value for it
Ignored(item) == Decoded(item) /\ mesh_settings_callback(item.payload) = OptNone
Matching(item) == Decoded(item) /\ mesh_settings_callback(item.payload) # OptNone

\* the error await_mesh_response returns for a result it cannot use
ErrorOf(item) ==
    IF item.recv = "Lagged" THEN LAGGED_ERROR
    ELSE IF item.recv = "Closed" THEN CLOSED_ERROR
    ELSE DECODE_ERROR

\* C19: await_mesh_response applies the callback to the decoded payloads in
\* the order the receiver delivers them, once each, and returns Ok(value) at
\* the first payload for which the callback yields Some(value); nothing
\* after that payload is taken from the receiver.
C19_ReturnsAtFirstMatch ==
    /\ Len(aw.calls) \in {aw.taken - 1, aw.taken}
    /\ \A i \in 1..Len(aw.calls) :
          /\ Decoded(Yielded(i))
          /\ aw.calls[i] = Yielded(i).payload
          /\ Matching(Yielded(i)) =>
                /\ i = aw.taken
                /\ aw.pc = "returned"
                /\ aw.result = AwaitOk(mesh_settings_callback(Yielded(i).payload)[1])
    /\ aw.result.tag = "Ok" =>
          /\ aw.pc = "returned"
          /\ Matching(Yielded(aw.taken))
          /\ \A i \in 1..(aw.taken - 1) : Ignored(Yielded(i))

\* the second of three payloads is the first MeshSettings: it is returned and
\* the third is left alone
C19_Witness ==
    /\ aw.deliveries = <<RecvOk(TelemetryMsg(1)), RecvOk(MeshSettingsMsg(1)),
                         RecvOk(MeshSettingsMsg(2))>>
    /\ aw.pc = "returned"
    /\ aw.result = AwaitOk(MeshSettingsMsg(1))
    /\ aw.taken = 2
    /\ aw.calls = <<TelemetryMsg(1), MeshSettingsMsg(1)>>

\* C20: await_mesh_response ends with an error at the first payload that
\* does not decode, at the first lag report, or when the bus is closed, with
\* the decode, lagged or closed error respectively, and the callback is not
\* evaluated on anything later.
C20_EndsAtFirstFailure ==
    /\ \A i \in 1..aw.taken :
          ~Decoded(Yielded(i)) =>
              /\ i = aw.taken
              /\ aw.pc = "returned"
              /\ aw.result = AwaitErr(ErrorOf(Yielded(i)))
              /\ Len(aw.calls) = i - 1
    /\ (aw.result.tag = "Err" /\ aw.result.error # TIMEOUT_ERROR) =>
          /\ aw.pc = "returned"
          /\ ~Decoded(Yielded(aw.taken))
          /\ \A i \in 1..(aw.taken - 1) : Ignored(Yielded(i))

\* the second of three payloads does not decode: the decode error is
\* returned and the MeshSettings behind it is never given to the callback
C20_Witness ==
    /\ aw.deliveries = <<RecvOk(TelemetryMsg(1)), RecvOk(Undecodable),
                         RecvOk(MeshSettingsMsg(1))>>
    /\ aw.pc = "returned"
    /\ aw.result = AwaitErr(DECODE_ERROR)
    /\ aw.taken = 2
    /\ aw.calls = <<TelemetryMsg(1)>>

EnqueuesOne(message) ==
    /\ enqueued' = Append(enqueued, message)
    /\ outbound' = Append(outbound, message)

\* this step puts nothing on the outbound queue
EnqueuesNothing == enqueued' = enqueued /\ outbound' = outbound

\* C22: a command publish reports success only if exactly one payload was
\* put on the outbound queue; if encoding or enqueueing fails the endpoint
\* answers 500, nothing is put on the queue, and the handler, having
\* answered, sends nothing more.
C22_SuccessMeansOneEnqueued ==
    [][/\ \A c \in Commands :
            /\ (cmds[c].pc = "start" /\ cmds'[c].pc = "done") =>
                  IF cmds'[c].resp = "200"
                  THEN EnqueuesOne(cmds'[c].message)
                  ELSE cmds'[c].resp = "500" /\ EnqueuesNothing
            /\ cmds[c].pc = "done" => cmds'[c] = cmds[c]
       /\ \A r \in Getters :
            /\ (gms[r].pc = "start" /\ gms'[r].pc # "start") =>
                  IF gms'[r].pc = "subscribe"
                  THEN EnqueuesOne(CommandMsg("GetMeshSettingsRequest"))
                  ELSE gms'[r].pc = "done" /\ gms'[r].resp = "500" /\ EnqueuesNothing
            /\ (gms[r].pc # "start" /\ gms'[r] # gms[r]) => EnqueuesNothing
       /\ \A r \in Requests :
            /\ (ur[r].pc = "send_request" /\ ur'[r].pc # "send_request") =>
                  IF ur'[r].pc = "subscribe"
                  THEN EnqueuesOne(CommandMsg("UpdateNextHopsRequest"))
                  ELSE ur'[r].pc = "done" /\ ur'[r].resp = "500" /\ EnqueuesNothing
            /\ (ur[r].pc = "send_next_hops" /\ ur'[r].pc # "send_next_hops") =>
                  /\ ur'[r].pc = "done"
                  /\ IF ur'[r].resp = "200"
                     THEN EnqueuesOne(NextHopsMsg(ur'[r].body))
                     ELSE ur'[r].resp = "500" /\ EnqueuesNothing
            /\ (ur[r].pc \notin {"send_request", "send_next_hops"} /\ ur'[r] # ur[r])
                  => EnqueuesNothing
      ]_vars

\* set_mesh_settings answered 500 for a failed encoding, get_ad_hoc_data
\* answered 200, and the queue has taken the one GetAdHocTelemetry command
C22_Witness ==
    /\ cmds[1] = [pc |-> "done", handler |-> "set_mesh_settings",
                  message |-> MeshSettingsMsg(1), resp |-> "500",
                  error |-> ENCODE_ERROR_MESSAGE]
    /\ cmds[2].pc = "done" /\ cmds[2].handler = "get_ad_hoc_data" /\ cmds[2].resp = "200"
    /\ enqueued = <<GetAdHocTelemetryMsg(1)>>

(***************************************************************************)
(* Claims about the signal collection and the end of update_routes         *)
(* (SpecRoutes).                                                           *)
(***************************************************************************)
\* the weight the accumulated graph must hold for the edge from -> sd.to
\* after sd was accumulated: that of the last link of sd naming `from`
LastSample(sd, from) ==
    LET i == CHOOSE i \in 1..Len(sd.links) :
                 /\ sd.links[i].from = from
                 /\ \A j \in i + 1..Len(sd.links) : sd.links[j].from # from
    IN  compute_edge_weight_proportionalised(sd.links[i].rssi, sd.links[i].snr)

\* the step of cycle r, if it takes a payload, accumulates it
TakesPayload(r) ==
    (ur[r].pc = "collect" /\ ur'[r].pc = "collect" /\ ur'[r].rx # ur[r].rx) =>
        LET sd == bus[ur[r].rx]
        IN  /\ ur'[r].rx = ur[r].rx + 1
            /\ sd.kind = "SignalData" =>
                 /\ ur'[r].gateway_ids =
                       IF sd.is_gateway THEN Append(ur[r].gateway_ids, sd.to)
                                        ELSE ur[r].gateway_ids
                 /\ sd.to \in DOMAIN ur'[r].adjacency_map
                 /\ \A i \in 1..Len(sd.links) :
                       /\ sd.links[i].from \in DOMAIN ur'[r].adjacency_map[sd.to]
                       /\ ur'[r].adjacency_map[sd.to][sd.links[i].from]
                             = LastSample(sd, sd.links[i].from)
            /\ sd.kind # "SignalData" =>
                 /\ ur'[r].adjacency_map = ur[r].adjacency_map
                 /\ ur'[r].gateway_ids = ur[r].gateway_ids

\* C23: during an update cycle every SignalData payload delivered between the
\* cycle's subscription and the deadline is accumulated (`to` is marked as a
\* gateway if is_gateway, adjacency[to][from] becomes the weight of each link,
\* a later sample overwriting an earlier one), a payload of another variant
\* leaves the accumulated graph unchanged, and collection goes on until the
\* deadline: it ends only when the timer fires, with every delivered payload
\* taken.
C23_CollectsUntilDeadline ==
    [][\A r \in Requests :
         /\ TakesPayload(r)
         /\ (ur[r].pc = "collect" /\ ur'[r].pc # "collect") => timeout_fires(ur[r].rx)
      ]_vars

\* a cycle stopped collecting at an undecodable payload, before it had
\* accumulated anything; the SignalData delivered after that payload is on the
\* bus and the path computation was started on the empty graph
C23_SignalDataNotCollected ==
    \E r \in Requests :
        /\ ur[r].pc = "compute" /\ updating_routes_lock = r
        /\ ur[r].rx0 = 1 /\ ur[r].rx = 1
        /\ Len(bus) = 2 /\ bus[1] = Undecodable /\ bus[2].kind = "SignalData"
        /\ ur[r].adjacency_map = EmptyMap /\ ur[r].gateway_ids = <<>>

\* the step of cycle r that ends its publish of the table: one NextHopsMap
\* holding the computed table is enqueued, after the UpdateNextHopsRequest,
\* and the response is 200 with that table; or nothing is enqueued and the
\* response is 500 without a table
PublishesTable(r) ==
    (ur[r].pc = "send_next_hops" /\ ur'[r].pc # "send_next_hops") =>
        /\ ur'[r].pc = "done"
        /\ \E i \in DOMAIN enqueued : enqueued[i] = CommandMsg("UpdateNextHopsRequest")
        /\ \/ /\ ur'[r].resp = "200"
              /\ enqueued' = Append(enqueued, NextHopsMsg(ur'[r].body))
              /\ ur'[r].body = ur[r].frame.out
           \/ /\ ur'[r].resp = "500" /\ ur'[r].body = EmptyMap
              /\ enqueued' = enqueued

\* C24: when the signal collection has ended at the timeout, update_routes
\* goes on as after a normal completion: pathfinding runs on what was
\* accumulated, then exactly one NextHopsMap is enqueued after the
\* UpdateNextHopsRequest enqueued earlier, and the response is 200 with a
\* table equal to the entries published, or 500 and no table if that publish
\* fails.
C24_TimeoutThenOnePublish ==
    [][\A r \in Requests :
         /\ (ur[r].pc = "collect" /\ ur'[r].pc # "collect") =>
               /\ ur'[r].pc = "compute"
               /\ ur'[r].frame = compute_next_hops_map_call(ur[r].adjacency_map,
                                                            ur[r].gateway_ids)
         /\ (ur[r].pc = "compute" /\ ur'[r].pc # "compute") =>
               ur'[r].pc = "send_next_hops" /\ ur'[r].frame.pc = "returned"
         /\ PublishesTable(r)
      ]_vars

\* both payloads the bus carried were accumulated, so the collection ended at
\* the timeout; node 2 has no path to the gateway 10 and the path computation
\* panicked: nothing but the request was enqueued and there is no response
C24_PanicInsteadOfPublish ==
    \E r \in Requests :
        /\ bus = <<SignalDataMsg(10, TRUE, <<[from |-> 1, rssi |-> -50, snr |-> 15]>>),
                   SignalDataMsg(2, FALSE, <<[from |-> 1, rssi |-> -60, snr |-> -25]>>)>>
        /\ ur[r].pc = "done" /\ ur[r].resp = "panic"
        /\ enqueued = <<CommandMsg("UpdateNextHopsRequest")>>
        /\ \A o \in Requests \ {r} : ur[o].pc = "start"

(***************************************************************************)
(* Claims about the previous pointers of dijkstra's table (SpecPath).      *)
(***************************************************************************)
\* the chain of previous pointers from v reaches g in exactly k steps, over
\* edges of the adjacency map and through no gateway other than g
RECURSIVE ChainEndsAt(_, _, _)
ChainEndsAt(v, k, g) ==
    IF k = 0 THEN v = g
    ELSE LET p == pf.table[v].previous
         IN  /\ p # None
             /\ p \in DOMAIN pf.table
             /\ v \in DOMAIN pf.adjacency_map[p]
             /\ p \notin Range(pf.gateway_ids) \ {g}
             /\ ChainEndsAt(p, k - 1, g)

\* C25: in the table dijkstra builds for the gateway g, every vertex whose
\* previous is set has a chain of previous pointers that ends at g after
\* exactly hop_count steps, follows only edges of the adjacency map and
\* contains no gateway other than g; so every predecessor listed for v in the
\* returned next-hop map lies on a path from v to a gateway.
C25_PreviousChainsEndAtGateway ==
    /\ pf.pc = "dijkstra" =>
          \A v \in DOMAIN pf.table :
              pf.table[v].previous # None =>
                  ChainEndsAt(v, pf.table[v].hop_count, pf.gateway_ids[pf.gi])
    /\ PathReturned =>
          \A v \in DOMAIN pf.out : \A i \in 1..Len(pf.out[v]) :
              /\ pf.result[v][i].previous = pf.out[v][i]
              /\ v \in DOMAIN pf.adjacency_map[pf.out[v][i]]

\* dijkstra for the gateway 10 is done: node 2 has previous = 1 and hop_count
\* 1, and node 1, which no path from the gateway reaches, has no previous
C25_ChainEndsAtUnreachedNode ==
    /\ DijkstraDone
    /\ pf.gateway_ids = <<10>>
    /\ DOMAIN pf.adjacency_map[10] = {}
    /\ pf.table[2].previous = 1 /\ pf.table[2].hop_count = 1
    /\ pf.table[1].previous = None /\ pf.table[1].total_cost = F32_MAX
    /\ app_settings.route_cost_weight = 0

(***************************************************************************)
(* Claims about lag and decode failures in a live session (SpecLive).      *)
(***************************************************************************)
\* the step of session s in which its receiver, polled by select!, reports
\* that it has lagged
LagReported(s) ==
    /\ ws_task[s].pc = "select"
    /\ recv_ready(ws_task[s].rx) /\ recv_lagged(ws_task[s].rx)
    /\ ws_task'[s].pc \notin {"select", "subscribe"}

\* C26: when the bus receiver of a live session reports lag the session
\* treats it as fatal: its task ends, with the decrement of the gauge, instead
\* of waiting or forwarding any longer.
C26_LagEndsTheSession ==
    [][\A s \in Sessions :
          LagReported(s) =>
              /\ ws_task'[s].pc = "ended"
              /\ ws_task'[s].decrements = ws_task[s].decrements + 1
              /\ websocket_count' = fetch_sub(websocket_count)]_vars

\* the receiver of a session has lagged (two payloads since it was created,
\* on a channel of capacity 1); the session is still counted, its client is
\* connected, and the task waits for a frame of the client
C26_LaggedSessionWaitsOn ==
    \E s \in Sessions :
        /\ ws_task[s].pc = "select_ws"
        /\ ws_task[s].rx = 1 /\ Len(bus) = 2
        /\ conn[s] = "open"
        /\ ws_task[s].decrements = 0 /\ websocket_count = 1

\* the step of session s that ends on_message_from_mesh for a payload that
\* does not decode
DecodeFailureHandled(s) ==
    /\ ws_task[s].pc = "on_message" /\ ~Decodes(ws_task[s].bytes)
    /\ ws_task'[s].pc # "on_message"

\* C27: when a bus payload fails to decode in a live session the session
\* sends its client an error frame; if that send succeeds the session stays
\* open and goes on with later payloads, and if it fails the session ends and
\* handles no further bus payload.
C27_DecodeFailureSendsErrorFrame ==
    [][\A s \in Sessions :
          DecodeFailureHandled(s) =>
              IF conn[s] = "open"
              THEN /\ frames'[s] = Append(frames[s], ErrorFrame(ws_task[s].rx))
                   /\ ws_task'[s].pc = "subscribe"
                   /\ websocket_count' = websocket_count
              ELSE /\ frames'[s] = frames[s]
                   /\ ws_task'[s].pc = "ended"]_vars

\* the send of the error frame for the first payload failed, and the session
\* is handling the telemetry payload that came after it
C27_HandlesPayloadAfterFailedSend ==
    \E s \in Sessions :
        /\ bus = <<Undecodable, TelemetryMsg(1)>>
        /\ ws_task[s].first_rx = 1 /\ ws_task[s].decrements = 1
        /\ conn[s] # "open"
        /\ ws_task[s].pc = "on_message" /\ ws_task[s].rx = 2
        /\ ws_task[s].bytes = TelemetryMsg(1)
        /\ Len(frames[s]) = 1

(***************************************************************************)
(* SpecWeight: compute_edge_weight_proportionalised on every observation   *)
(* of a usable link.  pf holds the call: its arguments, then its result.   *)
(***************************************************************************)
InitWeight ==
    /\ telemetry_cache = RingBuffer_new(0)
    /\ written = <<>>
    /\ cache_panics = 0
    /\ app_settings = SettingsOf(1, 0)
    /\ \E rssi \in MIN_RSSI..MAX_RSSI, snr \in MIN_SNR..MAX_SNR :
           pf = [pc |-> "edge_weight", rssi |-> rssi, snr |-> snr, weight |-> 0]
    /\ RoutesIdle
    /\ LiveIdle
    /\ ExtIdle

\* pathfinding.rs 57-59
ComputeEdgeWeight ==
    /\ pf.pc = "edge_weight"
    /\ pf' = [pf EXCEPT !.pc = "weighed",
                        !.weight = compute_edge_weight_proportionalised(pf.rssi, pf.snr)]
    /\ UNCHANGED <<telemetry_cache, written, cache_panics, app_settings>>
    /\ UNCHANGED <<routes_vars, live_vars, ext_vars>>

NextWeight == ComputeEdgeWeight

SpecWeight == InitWeight /\ [][NextWeight]_vars

\* C28: for every rssi in [-120, 0] and every snr in [-20, 30] the weight
\* compute_edge_weight_proportionalised returns lies in [0, MAX_HOPS]; no
\* usable link is given a negative weight.
C28_WeightWithinHopRange ==
    pf.pc = "weighed" =>
        /\ 0 <= pf.weight
        /\ pf.weight <= MAX_HOPS * DistScale

\* the best link, rssi 0 and snr 30, was given the weight -30/17 hops
C28_NegativeWeight ==
    /\ pf.pc = "weighed"
    /\ pf.rssi = MAX_RSSI /\ pf.snr = MAX_SNR
    /\ pf.weight = 0 - 30

(***************************************************************************)
(* SpecRace: one call of compute_next_hops_map while set_server_settings   *)
(* requests are served.  get_route_cost takes the settings lock anew for   *)
(* every cost (pathfinding.rs 68), so a request can be served between two  *)
(* steps of dijkstra.                                                      *)
(***************************************************************************)
\* bodies that set the two route weights
RouteWeightBodies ==
    { [NoBody EXCEPT !.route_cost_weight = Some(c), !.route_hops_weight = Some(d)] :
        c \in 0..MaxRouteWeight, d \in 0..MaxRouteWeight }

\* the graph 10 <- 1, 10 <- 2, 2 <- 3 with gateway 10, each link with one of
\* the two usable observations
InitRace ==
    /\ telemetry_cache = RingBuffer_new(0)
    /\ written = <<>>
    /\ cache_panics = 0
    /\ \E rcw \in 0..MaxRouteWeight, rhw \in 0..MaxRouteWeight :
           app_settings = SettingsOf(rcw, rhw)
    /\ \E obs \in LinkObservations :
           /\ \A e \in TemplateEdges :
                 IF e \in {<<10, 1>>, <<10, 2>>, <<2, 3>>} THEN obs[e] \in {1, 2}
                                                           ELSE obs[e] = 0
           /\ pf = compute_next_hops_map_call(AdjacencyOf(NodeIds, obs), <<10>>)
    /\ RoutesIdle
    /\ LiveIdle
    /\ ExtIdle

NextRace ==
    \/ PathForGateway
    \/ PathDijkstraStep
    \/ PathMerge
    \/ PathCollect
    \/ \E body \in RouteWeightBodies : SetServerSettings(body)

SpecRace == InitRace /\ [][NextRace]_vars

\* every composite cost of dijkstra's table was computed from the pair s
CostsComputedFrom(s) ==
    \A n \in DOMAIN pf.table :
        pf.table[n].previous # None =>
            pf.table[n].total_cost
                = get_route_cost(s, pf.table[n].total_distance, pf.table[n].hop_count)

\* C29: one run of compute_next_hops_map uses a single pair
\* (route_cost_weight, route_hops_weight) for every composite cost it
\* computes, also while set_server_settings is served concurrently: no two
\* costs of the same run come from different settings.
C29_OneSettingsPairPerRun ==
    pf.pc = "dijkstra" =>
        \E rcw \in 0..MaxRouteWeight, rhw \in 0..MaxRouteWeight :
            CostsComputedFrom(SettingsOf(rcw, rhw))

\* dijkstra is done: the cost of node 2 (35, one hop) was computed with
\* route_cost_weight 1 and the cost of node 3 behind it (0, with a distance of
\* 110 over two hops) with route_cost_weight 0, set in between
C29_CostsFromTwoSettings ==
    /\ DijkstraDone
    /\ pf.table[2].previous = 10 /\ pf.table[2].total_distance = 35
    /\ pf.table[2].total_cost = 35
    /\ pf.table[3].previous = 2 /\ pf.table[3].total_distance = 110
    /\ pf.table[3].total_cost = 0
    /\ srv.prev.route_cost_weight = 1 /\ srv.prev.route_hops_weight = 0
    /\ app_settings.route_cost_weight = 0 /\ app_settings.route_hops_weight = 0

(***************************************************************************)
(* Claims about cache writes with several live sessions (SpecLive).        *)
(***************************************************************************)
\* how often x occurs in the sequence s
Occurrences(s, x) == Cardinality({i \in DOMAIN s : s[i] = x})

\* C30: with one or more live sessions connected, each Telemetry payload the
\* bus carries is written into the telemetry cache once, not once per
\* session: the cache never holds more writes of a telemetry value than the
\* bus has carried payloads with it.
C30_TelemetryCachedOncePerPayload ==
    \A t \in 1..MaxTelemetry :
        Occurrences(written, t) <= Occurrences(bus, TelemetryMsg(t))

\* two sessions are connected, the bus has carried the one payload T1, and
\* the cache of capacity 2 iterates [T1, T1]
C30_CachedOncePerSession ==
    /\ bus = <<TelemetryMsg(1)>>
    /\ \A s \in Sessions : conn[s] = "open" /\ ws_task[s].pc = "subscribe"
    /\ \A s \in Sessions : frames[s][Len(frames[s])] = TelemetryFrame(1, 1)
    /\ written = <<1, 1>>
    /\ telemetry_cache.capacity = 2
    /\ RingBuffer_into_iter(telemetry_cache) = <<1, 1>>

(***************************************************************************)
(* Claims about the map compute_next_hops_map returns (SpecPath).          *)
(***************************************************************************)
\* C31: for every adjacency map that has all the gateway ids as keys
\* compute_next_hops_map returns a map and does not fail, also when some
\* vertex that is no gateway has no path from some gateway: such a vertex
\* contributes no entry for that gateway.
C31_ReturnsWithoutFailing ==
    ~MissingGateway(pf) =>
        /\ pf.pc # "panicked"
        /\ \A n \in DOMAIN pf.result : \A i \in 1..Len(pf.result[n]) :
               pf.result[n][i].previous # None

\* the gateway 10 is a key of the adjacency map and has no links; the record
\* of node 1, which no path reaches, was put into the list of node 1 and the
\* call panicked on it
C31_PanicOnUnreachedNode ==
    /\ pf.pc = "panicked"
    /\ pf.gateway_ids = <<10>> /\ 10 \in DOMAIN pf.adjacency_map
    /\ DOMAIN pf.adjacency_map[10] = {}
    /\ 1 \in DOMAIN pf.result
    /\ Len(pf.result[1]) = 1 /\ pf.result[1][1].previous = None
    /\ pf.result[1][1].total_cost = F32_MAX

\* C32: no key of the map compute_next_hops_map returns is a gateway id,
\* every key is a key of the adjacency map, and the list of each key holds
\* between 1 and |gateway_ids| entries, no two of them drawn from equal
\* Dijkstra records.
C32_ReturnedMapIsWellFormed ==
    PathReturned =>
        /\ DOMAIN pf.out \cap Range(pf.gateway_ids) = {}
        /\ DOMAIN pf.out \subseteq DOMAIN pf.adjacency_map
        /\ \A n \in DOMAIN pf.out :
              /\ 1 <= Len(pf.out[n]) /\ Len(pf.out[n]) <= Len(pf.gateway_ids)
              /\ Len(pf.out[n]) = Len(pf.result[n])
              /\ \A i, j \in 1..Len(pf.result[n]) :
                     i # j => pf.result[n][i] # pf.result[n][j]

\* a map was returned for the gateway list [10, 10]: the second table gave
\* node 1 a record equal to the first, and its list has one entry
C32_Witness ==
    /\ PathReturned
    /\ pf.gateway_ids = <<10, 10>>
    /\ 1 \in DOMAIN pf.out /\ pf.out[1] = <<10>>
    /\ pf.table[1] = pf.result[1][1]

====
